---- MODULE Spec2Model ----
(***************************************************************************)
(* ERC-4337 UserOperation builder and submission pipeline.                 *)
(*                                                                         *)
(* Client: client/src/lib/web3.ts, smartWallet.ts, deployment.ts.          *)
(* Server: server/routes.ts, server/bundler/providers.ts, factory.ts,      *)
(*         server/bundler/providers/alchemy.ts.                            *)
(*                                                                         *)
(* Text is modelled as a sequence of elements.  An element is one          *)
(* character ("0".."9", "a".."f", "A".."F", "g"), the two-character prefix *)
(* "0x", or a chunk: an opaque run of lower-case hex digits that stands    *)
(* for a whole number of bytes (an ABI selector, an ABI word, the 65       *)
(* signature bytes).  A JavaScript value is a record [t, v] with t its     *)
(* typeof and v its text (decimal digits for a bigint).                    *)
(***************************************************************************)
EXTENDS Integers, Sequences, FiniteSets, TLC

(***************************************************************************)
(* Bounds of the model.                                                    *)
(***************************************************************************)
MaxRuns == 2

(***************************************************************************)
(* Characters and text helpers.                                            *)
(***************************************************************************)
DecChars == <<"0","1","2","3","4","5","6","7","8","9">>

LowerHexChars == DecChars \o <<"a","b","c","d","e","f">>

DecDigits == {DecChars[i] : i \in 1..10}

HexDigits == {LowerHexChars[i] : i \in 1..16} \cup {"A","B","C","D","E","F"}

\* Length in characters of each chunk.
ChunkLen ==
  [c \in {"a9059cbb", "5fbfb9cf", "w:recipient", "w:amount", "w:owner", "w:0", "sig65", "pm", "key"} |->
     CASE c \in {"a9059cbb", "5fbfb9cf"} -> 8
       [] c = "sig65" -> 130
       [] c = "pm" -> 40
       [] OTHER -> 64]

Chunks == DOMAIN ChunkLen

\* String.prototype.toLowerCase on one element.
LowerChar(c) ==
  CASE c = "A" -> "a" [] c = "B" -> "b" [] c = "C" -> "c"
    [] c = "D" -> "d" [] c = "E" -> "e" [] c = "F" -> "f"
    [] OTHER -> c

toLowerCase(s) == [i \in 1..Len(s) |-> LowerChar(s[i])]

\* Value of a hexadecimal (or decimal) digit character.
DigitVal(c) == CHOOSE i \in 0..15 : LowerHexChars[i + 1] = LowerChar(c)

\* Number of characters of a text.
RECURSIVE NumChars(_)
NumChars(s) ==
  IF s = <<>> THEN 0
  ELSE (IF Head(s) \in Chunks THEN ChunkLen[Head(s)]
        ELSE IF Head(s) = "0x" THEN 2 ELSE 1) + NumChars(Tail(s))

startsWith0x(s) == Len(s) >= 1 /\ s[1] = "0x"

\* /^\d+$/
IsDecimalString(s) == Len(s) >= 1 /\ \A i \in 1..Len(s) : s[i] \in DecDigits

\* /^0x[0-9a-fA-F]*$/
IsHex(s) == startsWith0x(s) /\ \A i \in 2..Len(s) : s[i] \in HexDigits \cup Chunks

RECURSIVE StripLeadingZeros(_)
StripLeadingZeros(s) ==
  IF Len(s) > 1 /\ Head(s) = "0" THEN StripLeadingZeros(Tail(s)) ELSE s

(***************************************************************************)
(* JavaScript values.                                                      *)
(***************************************************************************)
Str(s) == [t |-> "string", v |-> s]

\* BigInt(text): the canonical decimal digits of the integer.
BigInt(s) == [t |-> "bigint", v |-> StripLeadingZeros(s)]

Undefined == [t |-> "undefined", v |-> <<>>]

Empty0x == Str(<<"0x">>)

\* Long division of a decimal numeral by 16: quotient digits and remainder.
RECURSIVE Div16(_, _, _)
Div16(ds, rem, q) ==
  IF ds = <<>> THEN [q |-> q, r |-> rem]
  ELSE LET cur == rem * 10 + DigitVal(Head(ds))
       IN Div16(Tail(ds), cur % 16, Append(q, DecChars[(cur \div 16) + 1]))

\* BigInt.prototype.toString(16) of a non-negative integer given in decimal.
RECURSIVE toString16(_)
toString16(ds) ==
  LET n == StripLeadingZeros(ds)
      d == Div16(n, 0, <<>>)
  IN IF StripLeadingZeros(d.q) = <<"0">> THEN <<LowerHexChars[d.r + 1]>>
     ELSE toString16(d.q) \o <<LowerHexChars[d.r + 1]>>

(***************************************************************************)
(* Static per-chain configuration.                                         *)
(***************************************************************************)
\* wagmi/chains names of SUPPORTED_NETWORKS, with their chain ids.
SUPPORTED_NETWORKS ==
  [n \in {"Ethereum", "Polygon", "Arbitrum One", "OP Mainnet", "Base", "Avalanche", "BNB Smart Chain"} |->
     CASE n = "Ethereum" -> 1 [] n = "Polygon" -> 137 [] n = "Arbitrum One" -> 42161
       [] n = "OP Mainnet" -> 10 [] n = "Base" -> 8453 [] n = "Avalanche" -> 43114
       [] OTHER -> 56]

ChainIds == {SUPPORTED_NETWORKS[n] : n \in DOMAIN SUPPORTED_NETWORKS}

CommonFactory ==
  Str(<<"0x","9","4","0","6","C","c","6","1","8","5","a","3","4","6","9","0","6","2","9","6","8","4","0","7","4","6","1","2","5","a","0","E","4","4","9","7","6","4","5","4">>)

PolygonFactory ==
  Str(<<"0x","E","7","7","f","2","C","7","D","7","9","B","2","7","4","3","d","3","9","A","d","7","3","D","C","4","7","a","8","e","9","C","6","4","1","6","a","D","3","f","3">>)

\* client/src/lib/smartWallet.ts
SIMPLE_ACCOUNT_FACTORY == [c \in ChainIds |-> CommonFactory]

\* server/routes.ts
SERVER_SIMPLE_ACCOUNT_FACTORY ==
  [c \in ChainIds |-> IF c = 137 THEN PolygonFactory ELSE CommonFactory]

ENTRY_POINT_ADDRESSES ==
  [c \in ChainIds |->
     Str(<<"0x","5","F","F","1","3","7","D","4","b","0","F","D","C","D","4","9","D","c","A","3","0","c","7","C","F","5","7","E","5","7","8","a","0","2","6","d","2","7","8","9">>)]

\* NETWORKS of server/routes.ts has the same seven chain ids.
NETWORKS == ChainIds

\* The connected key and the address privateKeyToAccount derives from it.
OwnerKey == Str(<<"0x", "key">>)

OwnerAddress == Str(<<"0x">> \o [i \in 1..40 |-> "A"])

\* The factory's getAddress(owner, salt) view call: a fixed function of the
\* factory, the owner and the salt (CREATE2).
getAddress(factory, owner, salt) ==
  Str(<<"0x">> \o SubSeq(toLowerCase(factory.v), 2, 21) \o SubSeq(toLowerCase(owner.v), 2, 21))

(***************************************************************************)
(* Hex/numeric canonicalizer of the wire format: serializeUserOp.          *)
(***************************************************************************)
\* A canonicalizer that pads the digits of a converted numeral with a zero.
formatHexZeroPadded(value) ==
  IF value.t \in {"null", "undefined"} THEN <<"0x">>
  ELSE IF value.t \in {"bigint", "number"} THEN <<"0x", "0">> \o toString16(value.v)
  ELSE IF value.t = "string" THEN
    IF startsWith0x(value.v) THEN value.v
    ELSE IF IsDecimalString(value.v) THEN <<"0x", "0">> \o toString16(BigInt(value.v).v)
    ELSE <<"0x">> \o value.v
  ELSE <<"0x">>

\* A canonicalizer that prefixes every string, an already prefixed one too.
formatHexPrefixesAgain(value) ==
  IF value.t \in {"null", "undefined"} THEN <<"0x">>
  ELSE IF value.t \in {"bigint", "number"} THEN <<"0x">> \o toString16(value.v)
  ELSE IF value.t = "string" THEN
    IF IsDecimalString(value.v) THEN <<"0x">> \o toString16(BigInt(value.v).v)
    ELSE <<"0x">> \o value.v
  ELSE <<"0x">>

formatHex(value) ==
  IF value.t \in {"null", "undefined"} THEN <<"0x">>
  ELSE IF value.t \in {"bigint", "number"} THEN <<"0x">> \o toString16(value.v)
  ELSE IF value.t = "string" THEN
    IF startsWith0x(value.v) THEN value.v
    ELSE IF IsDecimalString(value.v) THEN <<"0x">> \o toString16(BigInt(value.v).v)
    ELSE <<"0x">> \o value.v
  ELSE <<"0x">>

OpFields ==
  <<"sender", "nonce", "initCode", "callData", "callGasLimit", "verificationGasLimit",
    "preVerificationGas", "maxFeePerGas", "maxPriorityFeePerGas", "paymasterAndData">>

NumericFields ==
  {"nonce", "callGasLimit", "verificationGasLimit", "preVerificationGas",
   "maxFeePerGas", "maxPriorityFeePerGas"}

serializeUserOp(userOp) ==
  [sender |-> Str(formatHex(userOp.sender)),
   nonce |-> Str(formatHex(userOp.nonce)),
   initCode |-> Str(formatHex(userOp.initCode)),
   callData |-> Str(formatHex(userOp.callData)),
   callGasLimit |-> Str(formatHex(userOp.callGasLimit)),
   verificationGasLimit |-> Str(formatHex(userOp.verificationGasLimit)),
   preVerificationGas |-> Str(formatHex(userOp.preVerificationGas)),
   maxFeePerGas |-> Str(formatHex(userOp.maxFeePerGas)),
   maxPriorityFeePerGas |-> Str(formatHex(userOp.maxPriorityFeePerGas)),
   paymasterAndData |-> Str(formatHex(userOp.paymasterAndData)),
   signature |-> [userOp.signature EXCEPT !.t = "string", !.v = formatHex(userOp.signature)]]

(***************************************************************************)
(* Canonical hash and signature engine: signUserOp, signMessage.           *)
(***************************************************************************)
\* viem hexToBytes: the bytes of a 0x-prefixed hex text, written as lower-case
\* hex digits, an odd number of digits padded with a leading zero.
hexToBytes(hex) ==
  LET ds == toLowerCase(Tail(hex))
  IN IF NumChars(ds) % 2 = 1 THEN <<"0">> \o ds ELSE ds

\* viem stringToBytes: the UTF-8 bytes of a text that is not hex.
stringToBytes(text) == <<"utf8:">> \o text

\* viem toBytes of a string.
toBytes(text) == IF IsHex(text) THEN hexToBytes(text) ELSE stringToBytes(text)

\* One argument of viem concat, with the expression it was computed from.
Seg(f, b) == [f |-> f, b |-> b]

\* viem keccak256 of the concatenation of the segments.
keccak256(segs) == [alg |-> "keccak256", pre |-> segs]

NoDigest == keccak256(<<>>)

\* What a signature was computed over: the payload, and whether the key
\* signed keccak256("\x19Ethereum Signed Message:\n" + length + payload)
\* (eip191) or the payload itself.
SignedOver(eip191, enc, digest) == [eip191 |-> eip191, enc |-> enc, digest |-> digest]

NoSignedOver == SignedOver(FALSE, "none", NoDigest)

\* A signature value: its text, the signing key and what it was computed over.
Sig(t, v, by, over) == [t |-> t, v |-> v, by |-> by, over |-> over]

NoSignature == Sig("undefined", <<>>, "none", NoSignedOver)

EmptySignature == Sig("string", <<"0x">>, "none", NoSignedOver)

\* The formatHex local to signUserOp.
signFormatHex(value) ==
  LET hex == IF value.t = "bigint" THEN toString16(value.v) ELSE value.v
  IN IF startsWith0x(hex) THEN hex ELSE <<"0x">> \o hex

\* smartWallet.ts signMessage: client.signMessage({ message }) with a string
\* message signs the EIP-191 personal-message hash of the UTF-8 text.
signMessage(message, privateKey) ==
  Sig("string", <<"0x", "sig65">>, privateKey.v[2], SignedOver(TRUE, message.enc, message.digest))

\* userOpHash.slice(2): the 64 hex characters of the digest, as text.
sliceDigestText(userOpHash) == [enc |-> "hex-text", digest |-> userOpHash]

\* Decimal digits of a small natural number (a chain id).
RECURSIVE NatDigits(_)
NatDigits(n) ==
  IF n < 10 THEN <<DecChars[n + 1]>> ELSE NatDigits(n \div 10) \o <<DecChars[(n % 10) + 1]>>

\* packUserOp with nonce packed ahead of sender.
packUserOpReordered(userOp) ==
  <<Seg("nonce", toBytes(signFormatHex(userOp.nonce))),
    Seg("sender", toBytes(signFormatHex(userOp.sender))),
    Seg("initCode", toBytes(signFormatHex(userOp.initCode))),
    Seg("callData", toBytes(signFormatHex(userOp.callData))),
    Seg("callGasLimit", toBytes(signFormatHex(userOp.callGasLimit))),
    Seg("verificationGasLimit", toBytes(signFormatHex(userOp.verificationGasLimit))),
    Seg("preVerificationGas", toBytes(signFormatHex(userOp.preVerificationGas))),
    Seg("maxFeePerGas", toBytes(signFormatHex(userOp.maxFeePerGas))),
    Seg("maxPriorityFeePerGas", toBytes(signFormatHex(userOp.maxPriorityFeePerGas))),
    Seg("paymasterAndData", toBytes(signFormatHex(userOp.paymasterAndData)))>>

packUserOp(userOp) ==
  <<Seg("sender", toBytes(signFormatHex(userOp.sender))),
    Seg("nonce", toBytes(signFormatHex(userOp.nonce))),
    Seg("initCode", toBytes(signFormatHex(userOp.initCode))),
    Seg("callData", toBytes(signFormatHex(userOp.callData))),
    Seg("callGasLimit", toBytes(signFormatHex(userOp.callGasLimit))),
    Seg("verificationGasLimit", toBytes(signFormatHex(userOp.verificationGasLimit))),
    Seg("preVerificationGas", toBytes(signFormatHex(userOp.preVerificationGas))),
    Seg("maxFeePerGas", toBytes(signFormatHex(userOp.maxFeePerGas))),
    Seg("maxPriorityFeePerGas", toBytes(signFormatHex(userOp.maxPriorityFeePerGas))),
    Seg("paymasterAndData", toBytes(signFormatHex(userOp.paymasterAndData)))>>

\* signUserOp that hands back the placeholder signature of the assembled literal.
signUserOpSkipped(userOp, chainId, entryPoint, privateKey) == userOp.signature

signUserOp(userOp, chainId, entryPoint, privateKey) ==
  LET packed == packUserOp(userOp)
      message == <<Seg("entryPoint", toBytes(entryPoint.v)),
                   Seg("chainId", toBytes(signFormatHex(BigInt(NatDigits(chainId)))))>> \o packed
      userOpHash == keccak256(message)
  IN signMessage(sliceDigestText(userOpHash), privateKey)

(***************************************************************************)
(* Deployment code generator and operation assembly.                       *)
(***************************************************************************)
\* viem encodeFunctionData for createAccount(owner, salt).
encodeCreateAccount(owner, salt) == <<"0x", "5fbfb9cf", "w:owner", "w:0">>

\* viem encodeFunctionData for transfer(recipient, amount).
encodeTransfer(recipient, amount) == <<"0x", "a9059cbb", "w:recipient", "w:amount">>

\* generateInitCode that returns the encoded call without the factory address.
generateInitCodeNoFactory(ownerAddress, chainId) == Str(encodeCreateAccount(ownerAddress, 0))

generateInitCode(ownerAddress, chainId) ==
  LET factoryAddress == SIMPLE_ACCOUNT_FACTORY[chainId]
      formattedFactoryAddress ==
        IF startsWith0x(toLowerCase(factoryAddress.v)) THEN toLowerCase(factoryAddress.v)
        ELSE <<"0x">> \o factoryAddress.v
      createAccountData == encodeCreateAccount(ownerAddress, 0)
  IN Str(formattedFactoryAddress \o Tail(createAccountData))

\* The userOp literal of useSendTransaction.
assembleUserOp(sender, nonce, initCode) ==
  [sender |-> sender,
   nonce |-> Str(nonce.v),
   initCode |-> initCode,
   callData |-> Str(encodeTransfer("recipient", "amount")),
   callGasLimit |-> Str(<<"5","0","0","0","0","0">>),
   verificationGasLimit |-> Str(<<"5","0","0","0","0","0">>),
   preVerificationGas |-> Str(<<"5","0","0","0","0">>),
   maxFeePerGas |-> Str(<<"5","0","0","0","0","0","0","0","0","0">>),
   maxPriorityFeePerGas |-> Str(<<"5","0","0","0","0","0","0","0","0","0">>),
   paymasterAndData |-> Empty0x,
   signature |-> EmptySignature]

(***************************************************************************)
(* Texts of messages are sequences of tokens.                              *)
(***************************************************************************)
\* text contains sub as a contiguous part.
Contains(text, sub) ==
  \E i \in 1..(Len(text) + 1) :
    i + Len(sub) - 1 <= Len(text) /\ SubSeq(text, i, i + Len(sub) - 1) = sub

\* JSON string escaping of one token: a token with double quotes is rewritten.
JsonEscape(tok) == IF tok = "{\"error\":{\"message\":\"" THEN "{\\\"error\\\":{\\\"message\\\":\\\""
                   ELSE IF tok = "\"}}" THEN "\\\"}}"
                   ELSE tok

JsonEscapeText(text) == [i \in 1..Len(text) |-> JsonEscape(text[i])]

(***************************************************************************)
(* server/bundler/providers/alchemy.ts                                     *)
(***************************************************************************)
\* /^0x[0-9a-fA-F]{40}$/ on userOp.sender
IsAddressFormat(value) == value.t = "string" /\ IsHex(value.v) /\ NumChars(value.v) = 42

\* isValidHex(value?.toString())
isValidHex(value) ==
  IF value.t \in {"undefined", "null"} \/ value.v = <<>> THEN TRUE ELSE IsHex(value.v)

ValidatedFields ==
  <<"nonce", "callGasLimit", "verificationGasLimit", "preVerificationGas", "maxFeePerGas",
    "maxPriorityFeePerGas", "initCode", "callData", "paymasterAndData", "signature">>

\* A validation that looks at the sender only.
validateUserOperationSenderOnly(userOp) ==
  IF ~IsAddressFormat(userOp.sender) THEN <<"Invalid sender address format">> ELSE <<>>

\* The message validateUserOperation throws, or <<>> when it accepts.
validateUserOperation(userOp) ==
  IF ~IsAddressFormat(userOp.sender) THEN <<"Invalid sender address format">>
  ELSE LET bad == {i \in 1..Len(ValidatedFields) : ~isValidHex(userOp[ValidatedFields[i]])}
       IN IF bad = {} THEN <<>>
          ELSE LET i == CHOOSE j \in bad : \A k \in bad : j <= k
               IN <<"Invalid ", ValidatedFields[i], " format: ">> \o userOp[ValidatedFields[i]].v

\* The Alchemy subdomain of a chain id, or <<>> when the switch throws.
getChainPrefix(chainId) ==
  CASE chainId = 1 -> <<"eth-mainnet">>
    [] chainId = 137 -> <<"polygon-mainnet">>
    [] chainId = 42161 -> <<"arb-mainnet">>
    [] chainId = 10 -> <<"opt-mainnet">>
    [] chainId = 8453 -> <<"base-mainnet">>
    [] OTHER -> <<>>

\* Replies of the relay to eth_sendUserOperation: HTTP status, whether the
\* JSON-RPC envelope has an error field, the diagnostic message in it, and
\* the body text.
RelayAccepted == [status |-> 200, isError |-> FALSE, message |-> <<>>, text |-> <<"{\"result\":\"0xhash\"}">>]

RelayHttpError ==
  [status |-> 400, isError |-> TRUE, message |-> <<"insufficient funds for gas">>,
   text |-> <<"{\"error\":{\"message\":\"", "insufficient funds for gas", "\"}}">>]

RelayRpcError ==
  [status |-> 200, isError |-> TRUE, message |-> <<"AA23 reverted: invalid signature">>,
   text |-> <<"{\"error\":{\"message\":\"", "AA23 reverted: invalid signature", "\"}}">>]

RelayRpcErrorNoMessage ==
  [status |-> 200, isError |-> TRUE, message |-> <<>>, text |-> <<"{\"error\":{\"code\":-32000}}">>]

RelayReplies == {RelayAccepted, RelayHttpError, RelayRpcError, RelayRpcErrorNoMessage}

\* Replies of the paymaster endpoint.
\* threw: the request itself rejects, text is then the error's message.
PaymasterReplies ==
  {[threw |-> FALSE, ok |-> TRUE, paymasterAndData |-> Str(<<"0x", "pm">>), text |-> <<>>],
   [threw |-> FALSE, ok |-> TRUE, paymasterAndData |-> Undefined, text |-> <<>>],
   [threw |-> FALSE, ok |-> FALSE, paymasterAndData |-> Undefined, text |-> <<"paymaster down">>],
   [threw |-> TRUE, ok |-> FALSE, paymasterAndData |-> Undefined, text |-> <<"fetch failed">>]}

\* A catch block that logs what went wrong with the paymaster and goes on.
paymasterFailureIgnored(pmReply) == <<>>

\* The try block around the paymaster request: the message of the error its
\* catch block throws, or nothing when paymasterAndData was obtained.
paymasterFailure(pmReply) ==
  IF pmReply.threw THEN <<"Paymaster error: ">> \o pmReply.text
  ELSE IF ~pmReply.ok THEN <<"Paymaster error: ", "Paymaster request failed: ">> \o pmReply.text
  ELSE IF pmReply.paymasterAndData.t # "string"
    THEN <<"Paymaster error: ", "Invalid paymaster response: missing paymasterAndData">>
  ELSE IF pmReply.paymasterAndData.v = <<>>
    THEN <<"Paymaster error: ", "Invalid paymaster response: missing paymasterAndData">>
  ELSE <<>>

StatusText(status) == IF status = 400 THEN "400" ELSE IF status = 500 THEN "500" ELSE "200"

\* AlchemyBundlerProvider.sendUserOperation: the outcome (threw, message,
\* result text), the requests made to the paymaster endpoint and to the relay.
sendUserOperation(provider, userOp, entryPoint, chainId, pmReply, relayReply) ==
  LET invalid == validateUserOperation(userOp)
      usesPaymaster == provider.paymasterUrl.t = "string"
      pmFailure == IF ~usesPaymaster THEN <<>> ELSE paymasterFailure(pmReply)
      sentOp == IF usesPaymaster THEN [userOp EXCEPT !.paymasterAndData = pmReply.paymasterAndData]
                ELSE userOp
      Threw(msg, pm, relay) ==
        [threw |-> TRUE, message |-> msg, text |-> <<>>, paymasterCalls |-> pm, relayCalls |-> relay]
      pmCall == IF usesPaymaster THEN <<[userOp |-> userOp, entryPoint |-> entryPoint, chainId |-> chainId]>>
                ELSE <<>>
      relayCall == <<[userOp |-> sentOp, entryPoint |-> entryPoint, chainId |-> chainId, reply |-> relayReply]>>
  IN IF getChainPrefix(chainId) = <<>>
       THEN Threw(<<"Unsupported chain ID for Alchemy: ">> \o NatDigits(chainId), <<>>, <<>>)
     ELSE IF invalid # <<>> THEN Threw(invalid, <<>>, <<>>)
     ELSE IF pmFailure # <<>> THEN Threw(pmFailure, pmCall, <<>>)
     ELSE IF relayReply.status # 200
       THEN Threw(<<"Bundler request failed: ", StatusText(relayReply.status), " ">> \o relayReply.text,
                  pmCall, relayCall)
     ELSE IF relayReply.isError
       THEN Threw(IF relayReply.message # <<>> THEN relayReply.message ELSE <<"Unknown RPC error">>,
                  pmCall, relayCall)
     ELSE [threw |-> FALSE, message |-> <<>>, text |-> relayReply.text,
           paymasterCalls |-> pmCall, relayCalls |-> relayCall]

(***************************************************************************)
(* server/bundler/factory.ts, server/bundler/providers.ts                  *)
(***************************************************************************)
Null == [t |-> "null", v |-> <<>>]

NoProvider == [set |-> FALSE, apiKey |-> Null, paymasterUrl |-> Undefined]

NoConfig == [set |-> FALSE, type |-> Undefined, apiKey |-> Null, paymasterUrl |-> Undefined]

\* new AlchemyBundlerProvider(config)
AlchemyBundlerProvider(config) ==
  [set |-> TRUE, apiKey |-> config.apiKey, paymasterUrl |-> config.paymasterUrl]

\* providers.ts createBundlerProvider hands only the API key to the factory;
\* factory.ts accepts the type 'alchemy' only.  NoProvider stands for a throw.
createBundlerProvider(config) ==
  LET type == IF config.type.t = "string" THEN toLowerCase(config.type.v) ELSE <<"alchemy">>
  IN IF config.apiKey.t # "string" THEN NoProvider
     ELSE IF type # <<"alchemy">> THEN NoProvider
     ELSE AlchemyBundlerProvider([apiKey |-> config.apiKey, paymasterUrl |-> Undefined])

(***************************************************************************)
(* server/routes.ts: POST /api/send-user-operation                         *)
(***************************************************************************)
\* A catch block that answers a fixed text instead of error.message.
ErrorBodyGeneric(message) == <<"{\"error\":\"Failed to send user operation\",\"context\":{...}}">>

\* The JSON body of the route's catch block.
ErrorBody(message) == <<"{\"error\":\"">> \o JsonEscapeText(message) \o <<"\",\"context\":{...}}">>

\* The route as a function of the request, the configured provider and
\* configuration, and the replies of the paymaster endpoint and the relay:
\* the HTTP response and the outgoing requests.
sendUserOperationRoute(req, provider, config, pmReply, relayReply) ==
  LET Fail(msg, pm, relay) ==
        [status |-> 500, text |-> ErrorBody(msg), paymasterCalls |-> pm, relayCalls |-> relay]
      clear == ~req.usePaymaster \/ config.paymasterUrl.t # "string"
      userOp == IF clear THEN [req.userOp EXCEPT !.paymasterAndData = Empty0x] ELSE req.userOp
  IN IF ~provider.set
       THEN Fail(<<"Bundler provider not configured. Please configure bundler settings first.">>, <<>>, <<>>)
     ELSE IF req.chainId = 0 THEN Fail(<<"Missing chainId parameter">>, <<>>, <<>>)
     ELSE IF req.chainId \notin DOMAIN SERVER_SIMPLE_ACCOUNT_FACTORY
       THEN Fail(<<"Unsupported chain ID: ">> \o NatDigits(req.chainId), <<>>, <<>>)
     ELSE IF req.chainId \notin DOMAIN ENTRY_POINT_ADDRESSES
       THEN Fail(<<"No entry point address for chain ID: ">> \o NatDigits(req.chainId), <<>>, <<>>)
     ELSE LET out == sendUserOperation(provider, userOp, ENTRY_POINT_ADDRESSES[req.chainId],
                                       req.chainId, pmReply, relayReply)
          IN IF out.threw THEN Fail(out.message, out.paymasterCalls, out.relayCalls)
             ELSE [status |-> 200, text |-> out.text,
                   paymasterCalls |-> out.paymasterCalls, relayCalls |-> out.relayCalls]

(***************************************************************************)
(* client/src/lib/deployment.ts                                            *)
(***************************************************************************)
\* verifyDeployment: hasCode is what getBytecode finds at the address,
\* readThrows whether the read rejects; the catch block answers false.
verifyDeployment(chainId, hasCode, readThrows) ==
  IF chainId \notin ChainIds THEN FALSE
  ELSE IF readThrows THEN FALSE
  ELSE hasCode

\* estimateDeploymentGas: 120% of the estimate, or 500000 when the read throws.
estimateDeploymentGas(chainId, readThrows) ==
  IF chainId \notin ChainIds \/ readThrows THEN BigInt(<<"5","0","0","0","0","0">>)
  ELSE BigInt(<<"2","4","0","0","0","0">>)

(***************************************************************************)
(* client/src/lib/web3.ts: errors of useSendTransaction                    *)
(***************************************************************************)
NoError == [error |-> "", message |-> <<>>, network |-> 0]

\* formatTransactionError(error, { network }): network is the chain id of
\* selectedNetwork, 0 when it is undefined.
formatTransactionError(message, network) ==
  [error |-> "Failed to send UserOperation", message |-> message, network |-> network]

(***************************************************************************)
(* client/src/components: SendAssets.onSubmit and TransactionErrorDisplay  *)
(***************************************************************************)
InitCodeEmptyText == "sender is not a contract and initCode is empty"

\* The texts getHumanReadableError looks for.
HintNeedles == {InitCodeEmptyText, "insufficient funds", "invalid signature", "nonce"}

\* The searched texts that occur inside one token of a message.
NeedlesIn(tok) ==
  CASE tok \in HintNeedles -> {tok}
    [] tok = "insufficient funds for gas" -> {"insufficient funds"}
    [] tok = "AA23 reverted: invalid signature" -> {"invalid signature"}
    [] tok = "Failed to fetch nonce" -> {"nonce"}
    [] OTHER -> {}

\* String.prototype.includes
includes(text, needle) == \E i \in 1..Len(text) : needle \in NeedlesIn(text[i])

\* A hint layer that looks for 'nonce' before 'insufficient funds'.
getHumanReadableErrorNonceFirst(error) ==
  IF includes(error, InitCodeEmptyText) THEN "Smart Wallet Not Deployed"
  ELSE IF includes(error, "nonce") THEN "Invalid Transaction Sequence"
  ELSE IF includes(error, "insufficient funds") THEN "Insufficient Funds"
  ELSE IF includes(error, "invalid signature") THEN "Invalid Signature"
  ELSE "Transaction Failed"

\* getHumanReadableError(error).title
getHumanReadableError(error) ==
  IF includes(error, InitCodeEmptyText) THEN "Smart Wallet Not Deployed"
  ELSE IF includes(error, "insufficient funds") THEN "Insufficient Funds"
  ELSE IF includes(error, "invalid signature") THEN "Invalid Signature"
  ELSE IF includes(error, "nonce") THEN "Invalid Transaction Sequence"
  ELSE "Transaction Failed"

\* onSubmit's catch block and the dialog: the title shown and the message
\* shown under Technical Details for a thrown error object.
TransactionErrorDisplay(err) ==
  LET message == IF err.message # <<>> THEN err.message ELSE <<"Failed to send transaction">>
  IN [title |-> getHumanReadableError(message), message |-> message]

(***************************************************************************)
(* State.                                                                  *)
(***************************************************************************)
VARIABLES
  wallet,          \* useWalletStore: address, smartWalletAddress, privateKey
  bundlerProvider, \* routes.ts bundlerProvider
  bundlerConfig,   \* routes.ts bundlerConfig
  code,            \* chain ids on which the owner's smart wallet account has code
  run,             \* the user actions: a mutateAsync run of useSendTransaction,
                   \* a deploySmartWallet run, or a request of another HTTP client
  inflight,        \* requests to POST /api/send-user-operation not yet handled
  responses,       \* the HTTP response delivered to each run
  relayLog,        \* eth_sendUserOperation requests the relay has received
  paymasterLog,    \* requests the paymaster endpoint has received
  connects,        \* useWalletStore.connect calls awaiting address resolution
  store,           \* useDeploymentStore: status, error, transactionHash
  track,           \* a trackDeployment call
  verify,          \* a verifyUserOperation call
  unit             \* a call of AlchemyBundlerProvider.sendUserOperation on its own

\* The variables of the calls that are exercised on their own.
unitVars == <<connects, store, track, verify, unit>>

\* The variables of the pipeline other than the wallet store.
pipelineVars ==
  <<bundlerProvider, bundlerConfig, code, run, inflight, responses, relayLog, paymasterLog>>

vars == <<wallet, pipelineVars, unitVars>>

Runs == 1..MaxRuns

\* The network names a run is started with: a chain whose factory is the same
\* on client and server, the chain whose server-side factory differs, and a
\* name that is not in SUPPORTED_NETWORKS.
NetworkChoices == {"Ethereum", "Polygon", "Dogechain"}

NoOp ==
  [sender |-> Undefined, nonce |-> Undefined, initCode |-> Undefined, callData |-> Undefined,
   callGasLimit |-> Undefined, verificationGasLimit |-> Undefined,
   preVerificationGas |-> Undefined, maxFeePerGas |-> Undefined,
   maxPriorityFeePerGas |-> Undefined, paymasterAndData |-> Undefined,
   signature |-> NoSignature]

NoResponse == [status |-> 0, text |-> <<>>]

IdleRun ==
  [kind |-> "none", pc |-> "idle", privateKey |-> Null, address |-> Null, sender |-> Null,
   chainId |-> 0, isDeployed |-> FALSE, userOp |-> NoOp, result |-> <<>>, err |-> NoError]

\* useDeploymentStore before any call.
IdleStore == [status |-> "idle", error |-> Null, transactionHash |-> Null]

\* A pending promise.
PendingPromise == [state |-> "pending", value |-> Null]

IdleTrack ==
  [pc |-> "idle", maxRetries |-> 0, attempts |-> 0, started |-> 0, fetches |-> 0,
   deploymentPromise |-> PendingPromise, result |-> Null, err |-> Null]

NoReceiptRead == [threw |-> FALSE, status |-> "", message |-> <<>>]

IdleVerify ==
  [pc |-> "idle", txResponse |-> Null, chainId |-> 0, reads |-> 0, receipt |-> NoReceiptRead,
   result |-> Null]

NoCall == [fn |-> "none"]

DisconnectedWallet == [address |-> Null, smartWalletAddress |-> Null, privateKey |-> Null]

ApiKey == Str(<<"api-key">>)

\* The bundler configuration taken from ALCHEMY_API_KEY at start-up.
EnvConfig == [set |-> TRUE, type |-> Undefined, apiKey |-> ApiKey, paymasterUrl |-> Undefined]

Init ==
  /\ wallet = DisconnectedWallet
  /\ \/ bundlerConfig = NoConfig /\ bundlerProvider = NoProvider
     \/ bundlerConfig = EnvConfig /\ bundlerProvider = createBundlerProvider(EnvConfig)
  /\ code = {}
  /\ run = [r \in Runs |-> IdleRun]
  /\ inflight = {}
  /\ responses = [r \in Runs |-> NoResponse]
  /\ relayLog = {}
  /\ paymasterLog = {}
  /\ connects = <<>>
  /\ store = IdleStore
  /\ track = IdleTrack
  /\ verify = IdleVerify
  /\ unit = NoCall

(***************************************************************************)
(* useWalletStore (web3.ts)                                                *)
(***************************************************************************)
\* The address the compute-address route answers for an owner and a chain:
\* getAddress of the factory the server lists for the chain, salt 0.
computeSmartWalletAddress(ownerAddress, chainId) ==
  getAddress(SERVER_SIMPLE_ACCOUNT_FACTORY[chainId], ownerAddress, 0)

\* connect(privateKey): the smart wallet address is computed for
\* SUPPORTED_NETWORKS[0], chain id 1.
connect ==
  /\ wallet = DisconnectedWallet
  /\ wallet' = [address |-> OwnerAddress,
                smartWalletAddress |-> computeSmartWalletAddress(OwnerAddress, 1),
                privateKey |-> OwnerKey]
  /\ UNCHANGED <<bundlerProvider, bundlerConfig, code, run, inflight, responses, relayLog>>
  /\ UNCHANGED <<paymasterLog, unitVars>>

\* disconnect(): the store is cleared whatever it holds.  The connect calls
\* that are awaiting their address are marked as having seen a disconnect.
disconnect ==
  /\ wallet' = DisconnectedWallet
  /\ connects' = [i \in DOMAIN connects |->
                    IF connects[i].pc = "pending" THEN [connects[i] EXCEPT !.disconnected = TRUE]
                    ELSE connects[i]]
  /\ UNCHANGED <<bundlerProvider, bundlerConfig, code, run, inflight, responses, relayLog>>
  /\ UNCHANGED <<paymasterLog, store, track, verify, unit>>

(***************************************************************************)
(* useSendTransaction().mutateAsync (web3.ts).  An action is one stretch   *)
(* of the async function: from the arrival of the awaited reply to the     *)
(* next request.                                                           *)
(***************************************************************************)
\* catch (error) { throw formatTransactionError(error, { network }) }
Throw(r, message, network) ==
  run' = [run EXCEPT ![r] = [IdleRun EXCEPT !.kind = run[r].kind, !.pc = "thrown",
                                           !.err = formatTransactionError(message, network)]]

\* Runs are interchangeable: run r + 1 starts after run r has started.
CanStart(r) == run[r].pc = "idle" /\ (IF r = 1 THEN TRUE ELSE run[r - 1].pc # "idle")

StartNotConnected(r) ==
  /\ CanStart(r)
  /\ "null" \in {wallet.privateKey.t, wallet.address.t}
  /\ run' = [run EXCEPT ![r] = [IdleRun EXCEPT !.kind = "send", !.pc = "thrown",
                                 !.err = formatTransactionError(<<"Wallet not connected">>, 0)]]
  /\ UNCHANGED <<wallet, bundlerProvider, bundlerConfig, code, inflight, responses, relayLog>>
  /\ UNCHANGED <<paymasterLog, unitVars>>

StartUnsupported(r, network) ==
  /\ CanStart(r)
  /\ "null" \notin {wallet.privateKey.t, wallet.address.t}
  /\ network \notin DOMAIN SUPPORTED_NETWORKS
  /\ run' = [run EXCEPT ![r] = [IdleRun EXCEPT !.kind = "send", !.pc = "thrown",
                                 !.err = formatTransactionError(<<"Network not supported">>, 0)]]
  /\ UNCHANGED <<wallet, bundlerProvider, bundlerConfig, code, inflight, responses, relayLog>>
  /\ UNCHANGED <<paymasterLog, unitVars>>

\* A mutateAsync that refuses to start while another transfer is in flight.
StartSerialized(r, network) ==
  /\ CanStart(r)
  /\ \A o \in Runs : run[o].kind = "send" => run[o].pc \in {"idle", "returned", "thrown"}
  /\ "null" \notin {wallet.privateKey.t, wallet.address.t}
  /\ network \in DOMAIN SUPPORTED_NETWORKS
  /\ run' = [run EXCEPT ![r] =
       [IdleRun EXCEPT !.kind = "send",
                       !.pc = "verifyDeployment",
                       !.privateKey = wallet.privateKey,
                       !.address = wallet.address,
                       !.sender = IF wallet.smartWalletAddress.t = "string"
                                    THEN wallet.smartWalletAddress ELSE wallet.address,
                       !.chainId = SUPPORTED_NETWORKS[network]]]
  /\ UNCHANGED <<wallet, bundlerProvider, bundlerConfig, code, inflight, responses, relayLog>>
  /\ UNCHANGED <<paymasterLog, unitVars>>

\* Up to await verifyDeployment(sender, selectedNetwork.id).
Start(r, network) ==
  /\ CanStart(r)
  /\ "null" \notin {wallet.privateKey.t, wallet.address.t}
  /\ network \in DOMAIN SUPPORTED_NETWORKS
  /\ run' = [run EXCEPT ![r] =
       [IdleRun EXCEPT !.kind = "send",
                       !.pc = "verifyDeployment",
                       !.privateKey = wallet.privateKey,
                       !.address = wallet.address,
                       !.sender = IF wallet.smartWalletAddress.t = "string"
                                    THEN wallet.smartWalletAddress ELSE wallet.address,
                       !.chainId = SUPPORTED_NETWORKS[network]]]
  /\ UNCHANGED <<wallet, bundlerProvider, bundlerConfig, code, inflight, responses, relayLog>>
  /\ UNCHANGED <<paymasterLog, unitVars>>

\* The account the client's factory creates for the owner: where code appears.
WalletAddress == getAddress(CommonFactory, OwnerAddress, 0)

\* getBytecode at an address on a chain.
hasCode(address, chainId) == address = WalletAddress /\ chainId \in code

\* isDeployed = await verifyDeployment(...); initCode = !isDeployed ? ... : '0x'
CheckDeployment(r, readThrows) ==
  /\ run[r].kind = "send" /\ run[r].pc = "verifyDeployment"
  /\ LET isDeployed == verifyDeployment(run[r].chainId, hasCode(run[r].sender, run[r].chainId), readThrows)
         initCode == IF ~isDeployed THEN generateInitCode(run[r].address, run[r].chainId) ELSE Empty0x
     IN run' = [run EXCEPT ![r].pc = "fetchNonce",
                           ![r].isDeployed = isDeployed,
                           ![r].userOp.initCode = initCode]
  /\ UNCHANGED <<wallet, bundlerProvider, bundlerConfig, code, inflight, responses, relayLog>>
  /\ UNCHANGED <<paymasterLog, unitVars>>

\* GET /api/smart-wallet/nonce answers 0; the userOp literal is built.
FetchNonce(r) ==
  /\ run[r].kind = "send" /\ run[r].pc = "fetchNonce"
  /\ run' = [run EXCEPT ![r].pc = "fetchEntryPoint",
                        ![r].userOp = assembleUserOp(run[r].sender, BigInt(<<"0">>),
                                                     run[r].userOp.initCode)]
  /\ UNCHANGED <<wallet, bundlerProvider, bundlerConfig, code, inflight, responses, relayLog>>
  /\ UNCHANGED <<paymasterLog, unitVars>>

FetchNonceFails(r) ==
  /\ run[r].kind = "send" /\ run[r].pc = "fetchNonce"
  /\ Throw(r, <<"Failed to fetch nonce">>, run[r].chainId)
  /\ UNCHANGED <<wallet, bundlerProvider, bundlerConfig, code, inflight, responses, relayLog>>
  /\ UNCHANGED <<paymasterLog, unitVars>>

\* signedUserOp = { ...userOp, signature: await signUserOp(...) }
signedUserOp(userOp, chainId, entryPoint, privateKey) ==
  [userOp EXCEPT !.signature = signUserOp(userOp, chainId, entryPoint, privateKey)]

\* The body of a POST /api/send-user-operation.
PostBody(r, userOp, chainId, usePaymaster) ==
  [src |-> r, userOp |-> userOp, chainId |-> chainId, usePaymaster |-> usePaymaster]

\* GET /api/smart-wallet/entry-point answers the address; the operation is
\* signed, serialized and posted.
FetchEntryPoint(r) ==
  /\ run[r].kind = "send" /\ run[r].pc = "fetchEntryPoint"
  /\ LET entryPoint == ENTRY_POINT_ADDRESSES[run[r].chainId]
         signed == signedUserOp(run[r].userOp, run[r].chainId, entryPoint, run[r].privateKey)
     IN /\ run' = [run EXCEPT ![r].pc = "send", ![r].userOp = signed]
        /\ inflight' = inflight \cup {PostBody(r, serializeUserOp(signed), run[r].chainId, FALSE)}
  /\ UNCHANGED <<wallet, bundlerProvider, bundlerConfig, code, responses, relayLog>>
  /\ UNCHANGED <<paymasterLog, unitVars>>

FetchEntryPointFails(r) ==
  /\ run[r].kind = "send" /\ run[r].pc = "fetchEntryPoint"
  /\ Throw(r, <<"Failed to fetch entry point address">>, run[r].chainId)
  /\ UNCHANGED <<wallet, bundlerProvider, bundlerConfig, code, inflight, responses, relayLog>>
  /\ UNCHANGED <<paymasterLog, unitVars>>

\* response.ok: return response.json()
ReceiveOk(r) ==
  /\ run[r].kind = "send" /\ run[r].pc = "send"
  /\ responses[r].status = 200
  /\ run' = [run EXCEPT ![r] = [IdleRun EXCEPT !.kind = "send", !.pc = "returned",
                                              !.result = responses[r].text]]
  /\ UNCHANGED <<wallet, bundlerProvider, bundlerConfig, code, inflight, responses, relayLog>>
  /\ UNCHANGED <<paymasterLog, unitVars>>

\* !response.ok: throw new Error(`Failed to send transaction: ${errorText}`)
ReceiveError(r) ==
  /\ run[r].kind = "send" /\ run[r].pc = "send"
  /\ responses[r].status \notin {0, 200}
  /\ Throw(r, <<"Failed to send transaction: ">> \o responses[r].text, run[r].chainId)
  /\ UNCHANGED <<wallet, bundlerProvider, bundlerConfig, code, inflight, responses, relayLog>>
  /\ UNCHANGED <<paymasterLog, unitVars>>

(***************************************************************************)
(* Other HTTP clients of POST /api/send-user-operation.                    *)
(***************************************************************************)
\* The hash preimage of an operation whose fields are hashed as their
\* canonical hex, decoded to bytes.
CanonicalPack(userOp, chainId, entryPoint) ==
  <<Seg("entryPoint", toBytes(entryPoint.v)),
    Seg("chainId", toBytes(formatHex(BigInt(NatDigits(chainId)))))>> \o
  [i \in 1..Len(OpFields) |-> Seg(OpFields[i], toBytes(formatHex(userOp[OpFields[i]])))]

\* A sponsored operation of another wallet, signed over its raw digest.
SponsoredOp ==
  LET op == [assembleUserOp(getAddress(CommonFactory, Str(<<"0x">> \o [i \in 1..40 |-> "b"]), 0),
                            BigInt(<<"7">>), Empty0x)
               EXCEPT !.paymasterAndData = Str(<<"0x", "pm">>)]
      over == SignedOver(FALSE, "bytes", keccak256(CanonicalPack(op, 1, ENTRY_POINT_ADDRESSES[1])))
  IN serializeUserOp([op EXCEPT !.signature = Sig("string", <<"0x", "sig65">>, "other-key", over)])

ExternalPost(r, usePaymaster) ==
  /\ CanStart(r)
  /\ run' = [run EXCEPT ![r] = [IdleRun EXCEPT !.kind = "external", !.pc = "posted"]]
  /\ inflight' = inflight \cup {PostBody(r, SponsoredOp, 1, usePaymaster)}
  /\ UNCHANGED <<wallet, bundlerProvider, bundlerConfig, code, responses, relayLog>>
  /\ UNCHANGED <<paymasterLog, unitVars>>

(***************************************************************************)
(* server/routes.ts                                                        *)
(***************************************************************************)
\* POST /api/send-user-operation, from the request to the response.
HandleSendUserOperation(req, pmReply, relayReply) ==
  /\ req \in inflight
  /\ LET out == sendUserOperationRoute(req, bundlerProvider, bundlerConfig, pmReply, relayReply)
     IN /\ relayLog' = relayLog \cup
             {[src |-> req.src, userOp |-> out.relayCalls[i].userOp,
               entryPoint |-> out.relayCalls[i].entryPoint,
               chainId |-> out.relayCalls[i].chainId,
               reply |-> out.relayCalls[i].reply] : i \in 1..Len(out.relayCalls)}
        /\ paymasterLog' = paymasterLog \cup
             {[src |-> req.src, userOp |-> out.paymasterCalls[i].userOp,
               entryPoint |-> out.paymasterCalls[i].entryPoint,
               chainId |-> out.paymasterCalls[i].chainId] : i \in 1..Len(out.paymasterCalls)}
        /\ responses' = [responses EXCEPT ![req.src] = [status |-> out.status, text |-> out.text]]
  /\ inflight' = inflight \ {req}
  /\ UNCHANGED <<wallet, bundlerProvider, bundlerConfig, code, run>>
  /\ UNCHANGED unitVars

\* initializeBundlerProvider(config): bundlerConfig is assigned before
\* createBundlerProvider runs, bundlerProvider only when it returns.
initializeBundlerProvider(config) ==
  /\ bundlerConfig' = config
  /\ bundlerProvider' = IF createBundlerProvider(config).set THEN createBundlerProvider(config)
                        ELSE bundlerProvider

\* POST /api/config/bundler with an apiKey.
ConfigBundler(type, paymasterUrl) ==
  /\ LET config == [set |-> TRUE, type |-> type, apiKey |-> ApiKey, paymasterUrl |-> paymasterUrl]
     IN /\ config # bundlerConfig
        /\ initializeBundlerProvider(config)
  /\ UNCHANGED <<wallet, code, run, inflight, responses, relayLog>>
  /\ UNCHANGED <<paymasterLog, unitVars>>

(***************************************************************************)
(* The chain.                                                              *)
(***************************************************************************)
\* An accepted operation with initCode is executed: the account gets code.
AccountCreated(c) ==
  /\ c \notin code
  /\ \E e \in relayLog :
       /\ e.chainId = c
       /\ e.reply = RelayAccepted
       /\ e.userOp.sender = WalletAddress
       /\ e.userOp.initCode # Empty0x
  /\ code' = code \cup {c}
  /\ UNCHANGED <<wallet, bundlerProvider, bundlerConfig, run, inflight, responses, relayLog>>
  /\ UNCHANGED <<paymasterLog, unitVars>>

(***************************************************************************)
(* deploySmartWallet (smartWallet.ts)                                      *)
(***************************************************************************)
\* JSON.stringify throws a TypeError on a BigInt value.
JSONStringifyThrows(obj) ==
  \E i \in 1..Len(OpFields) : obj[OpFields[i]].t = "bigint"

\* The deploymentTx literal: it has no signature property.
assembleDeploymentTx(expectedAddress, initCode, gasEstimate) ==
  [sender |-> expectedAddress,
   nonce |-> BigInt(<<"0">>),
   initCode |-> initCode,
   callData |-> Empty0x,
   callGasLimit |-> gasEstimate,
   verificationGasLimit |-> BigInt(<<"4","0","0","0","0","0">>),
   preVerificationGas |-> BigInt(<<"5","0","0","0","0">>),
   maxFeePerGas |-> BigInt(<<"5","0","0","0","0","0","0","0","0","0">>),
   maxPriorityFeePerGas |-> BigInt(<<"5","0","0","0","0","0","0","0","0","0">>),
   paymasterAndData |-> Empty0x,
   signature |-> NoSignature]

\* deploySmartWallet(ownerAddress, chainId, privateKey) up to its await of
\* computeSmartWalletAddress.
DeployStart(r, network) ==
  /\ CanStart(r)
  /\ network \in DOMAIN SUPPORTED_NETWORKS
  /\ SUPPORTED_NETWORKS[network] \in DOMAIN SIMPLE_ACCOUNT_FACTORY
  /\ run' = [run EXCEPT ![r] = [IdleRun EXCEPT !.kind = "deploy", !.pc = "computeAddress",
                                              !.privateKey = OwnerKey, !.address = OwnerAddress,
                                              !.chainId = SUPPORTED_NETWORKS[network]]]
  /\ UNCHANGED <<wallet, bundlerProvider, bundlerConfig, code, inflight, responses, relayLog>>
  /\ UNCHANGED <<paymasterLog, unitVars>>

\* expectedAddress = await computeSmartWalletAddress(ownerAddress, chainId)
DeployAddressResolved(r) ==
  /\ run[r].kind = "deploy" /\ run[r].pc = "computeAddress"
  /\ run' = [run EXCEPT ![r].pc = "verifyDeployment",
                        ![r].sender = computeSmartWalletAddress(run[r].address, run[r].chainId)]
  /\ UNCHANGED <<wallet, bundlerProvider, bundlerConfig, code, inflight, responses, relayLog>>
  /\ UNCHANGED <<paymasterLog, unitVars>>

DeployAddressFails(r) ==
  /\ run[r].kind = "deploy" /\ run[r].pc = "computeAddress"
  /\ run' = [run EXCEPT ![r] = [IdleRun EXCEPT !.kind = "deploy", !.pc = "thrown",
                                 !.err = [NoError EXCEPT !.message = <<"Failed to compute smart wallet address">>]]]
  /\ UNCHANGED <<wallet, bundlerProvider, bundlerConfig, code, inflight, responses, relayLog>>
  /\ UNCHANGED <<paymasterLog, unitVars>>

\* isDeployed: return expectedAddress; otherwise go on to the gas estimate.
DeployCheck(r, readThrows) ==
  /\ run[r].kind = "deploy" /\ run[r].pc = "verifyDeployment"
  /\ LET isDeployed == verifyDeployment(run[r].chainId, hasCode(run[r].sender, run[r].chainId), readThrows)
     IN run' = IF isDeployed
                 THEN [run EXCEPT ![r] = [IdleRun EXCEPT !.kind = "deploy", !.pc = "returned",
                                                         !.result = run[r].sender.v]]
               ELSE [run EXCEPT ![r].pc = "estimateGas", ![r].isDeployed = isDeployed]
  /\ UNCHANGED <<wallet, bundlerProvider, bundlerConfig, code, inflight, responses, relayLog>>
  /\ UNCHANGED <<paymasterLog, unitVars>>

\* generateInitCode, the gas estimate, the deploymentTx literal and
\* console.log(JSON.stringify(deploymentTx)), which precedes the fetch.
DeployAssemble(r, readThrows) ==
  /\ run[r].kind = "deploy" /\ run[r].pc = "estimateGas"
  /\ LET tx == assembleDeploymentTx(run[r].sender,
                                    generateInitCode(run[r].address, run[r].chainId),
                                    estimateDeploymentGas(run[r].chainId, readThrows))
     IN IF JSONStringifyThrows(tx)
          THEN /\ run' = [run EXCEPT ![r].pc = "thrown", ![r].userOp = tx,
                            ![r].err = [NoError EXCEPT !.message =
                                          <<"TypeError: Do not know how to serialize a BigInt">>]]
               /\ UNCHANGED inflight
          ELSE /\ run' = [run EXCEPT ![r].pc = "trackDeployment", ![r].userOp = tx]
               /\ inflight' = inflight \cup {PostBody(r, tx, run[r].chainId, FALSE)}
  /\ UNCHANGED <<wallet, bundlerProvider, bundlerConfig, code, responses, relayLog>>
  /\ UNCHANGED <<paymasterLog, unitVars>>

(***************************************************************************)
(* Specification.                                                          *)
(***************************************************************************)
Next ==
  \/ connect
  \/ disconnect
  \/ \E r \in Runs : StartNotConnected(r)
  \/ \E r \in Runs, n \in NetworkChoices : StartUnsupported(r, n)
  \/ \E r \in Runs, n \in NetworkChoices : Start(r, n)
  \/ \E r \in Runs, readThrows \in BOOLEAN : CheckDeployment(r, readThrows)
  \/ \E r \in Runs : FetchNonce(r)
  \/ \E r \in Runs : FetchNonceFails(r)
  \/ \E r \in Runs : FetchEntryPoint(r)
  \/ \E r \in Runs : FetchEntryPointFails(r)
  \/ \E r \in Runs : ReceiveOk(r)
  \/ \E r \in Runs : ReceiveError(r)
  \/ \E r \in Runs, usePaymaster \in BOOLEAN : ExternalPost(r, usePaymaster)
  \/ \E req \in inflight, pmReply \in PaymasterReplies, relayReply \in RelayReplies :
       HandleSendUserOperation(req, pmReply, relayReply)
  \/ \E type \in {Undefined}, paymasterUrl \in {Undefined, Str(<<"https://paymaster">>)} :
       ConfigBundler(type, paymasterUrl)
  \/ \E c \in ChainIds : AccountCreated(c)
  \/ \E r \in Runs, n \in NetworkChoices : DeployStart(r, n)
  \/ \E r \in Runs : DeployAddressResolved(r)
  \/ \E r \in Runs : DeployAddressFails(r)
  \/ \E r \in Runs, readThrows \in BOOLEAN : DeployCheck(r, readThrows)
  \/ \E r \in Runs, readThrows \in BOOLEAN : DeployAssemble(r, readThrows)

Spec == Init /\ [][Next]_vars

(***************************************************************************)
(* trackDeployment and useDeploymentStore (deployment.ts), called on their *)
(* own with the promise of a POST /api/send-user-operation.                *)
(***************************************************************************)
\* The default of the maxRetries parameter.
MaxRetries == 3

setStatus(s, status) == [s EXCEPT !.status = status]

setError(s, error) == [s EXCEPT !.error = error]

setTransactionHash(s, hash) == [s EXCEPT !.transactionHash = hash]

\* What a fetch promise is fulfilled with: a Response, which has no hash
\* property; and a parsed relay result that has one.
ResponseOk == [t |-> "Response", ok |-> TRUE, hash |-> Undefined]

ResponseNotOk == [t |-> "Response", ok |-> FALSE, hash |-> Undefined]

ResultWithHash == [t |-> "object", ok |-> TRUE, hash |-> Str(<<"0x", "w:0">>)]

\* What a fetch promise is rejected with.
FetchFailed == [t |-> "Error", message |-> <<"Failed to fetch">>]

FetchAborted == [t |-> "Error", message |-> <<"The operation was aborted">>]

Fulfilled(value) == [state |-> "fulfilled", value |-> value]

Rejected(error) == [state |-> "rejected", value |-> error]

DeploymentOutcomes ==
  {Fulfilled(ResponseOk), Fulfilled(ResponseNotOk), Fulfilled(ResultWithHash),
   Rejected(FetchFailed), Rejected(FetchAborted)}

\* The head of the while loop and the statements up to the await.
beginAttempt(t, s) ==
  [track |-> [t EXCEPT !.pc = "await", !.started = t.started + 1],
   store |-> setError(setStatus(s, "deploying"), Null)]

\* The statements after the await when the promise is fulfilled.
onAttemptFulfilled(t, s, result) ==
  [track |-> [t EXCEPT !.pc = "returned", !.result = result],
   store |-> setStatus(setTransactionHash(s, result.hash), "deployed")]

\* A catch block that never gives up: it waits and retries after every failure.
onAttemptFailedNoThrow(t, s, error) ==
  [track |-> [t EXCEPT !.pc = "backoff", !.attempts = t.attempts + 1], store |-> s]

\* A catch block that marks the store 'failed' after every failed attempt.
onAttemptFailedMarksEach(t, s, error) ==
  IF t.attempts + 1 = t.maxRetries
    THEN [track |-> [t EXCEPT !.pc = "thrown", !.attempts = t.attempts + 1, !.err = error],
          store |-> setError(setStatus(s, "failed"), Str(error.message))]
  ELSE [track |-> [t EXCEPT !.pc = "backoff", !.attempts = t.attempts + 1],
        store |-> setError(setStatus(s, "failed"), Str(error.message))]

\* The catch block.
onAttemptFailed(t, s, error) ==
  IF t.attempts + 1 = t.maxRetries
    THEN [track |-> [t EXCEPT !.pc = "thrown", !.attempts = t.attempts + 1, !.err = error],
          store |-> setError(setStatus(s, "failed"),
                             IF error.message # <<>> THEN Str(error.message)
                             ELSE Str(<<"Deployment failed after maximum retries">>))]
  ELSE [track |-> [t EXCEPT !.pc = "backoff", !.attempts = t.attempts + 1], store |-> s]

\* fetch('/api/send-user-operation', ...) is evaluated once, and
\* trackDeployment(promise, maxRetries) runs to its first await.
TrackStart(maxRetries) ==
  /\ track.pc \in {"idle", "returned", "thrown"}
  /\ LET t == [IdleTrack EXCEPT !.maxRetries = maxRetries, !.fetches = 1]
         next == beginAttempt(t, store)
     IN /\ track' = next.track
        /\ store' = next.store
  /\ UNCHANGED <<wallet, pipelineVars, connects, verify, unit>>

\* The request of the deployment promise completes.
PromiseSettles(outcome) ==
  /\ track.pc = "await"
  /\ track.deploymentPromise.state = "pending"
  /\ track' = [track EXCEPT !.deploymentPromise = outcome]
  /\ UNCHANGED <<wallet, pipelineVars, connects, store, verify, unit>>

\* await deploymentPromise continues.
TrackResume ==
  /\ track.pc = "await"
  /\ track.deploymentPromise.state # "pending"
  /\ LET next == IF track.deploymentPromise.state = "fulfilled"
                   THEN onAttemptFulfilled(track, store, track.deploymentPromise.value)
                 ELSE onAttemptFailed(track, store, track.deploymentPromise.value)
     IN /\ track' = next.track
        /\ store' = next.store
  /\ UNCHANGED <<wallet, pipelineVars, connects, verify, unit>>

\* The retryDelay timer fires and the loop goes round.
TrackBackoffElapsed ==
  /\ track.pc = "backoff"
  /\ LET next == IF track.attempts < track.maxRetries THEN beginAttempt(track, store)
                 ELSE [track |-> [track EXCEPT !.pc = "returned", !.result = Undefined],
                       store |-> store]
     IN /\ track' = next.track
        /\ store' = next.store
  /\ UNCHANGED <<wallet, pipelineVars, connects, verify, unit>>

\* useDeploymentStore.reset()
StoreReset ==
  /\ track.pc \in {"returned", "thrown"}
  /\ store # IdleStore
  /\ store' = IdleStore
  /\ UNCHANGED <<wallet, pipelineVars, connects, track, verify, unit>>

NextTrack ==
  \/ \E maxRetries \in 1..MaxRetries : TrackStart(maxRetries)
  \/ \E outcome \in DeploymentOutcomes : PromiseSettles(outcome)
  \/ TrackResume
  \/ TrackBackoffElapsed
  \/ StoreReset

\* The calls exercised on their own start with the server unconfigured.
InitUnits == Init /\ bundlerConfig = NoConfig

SpecTrack == InitUnits /\ [][NextTrack]_vars

\* Every await continues, every timer fires and every request completes.
SpecTrackFair ==
  /\ SpecTrack
  /\ WF_vars(TrackResume)
  /\ WF_vars(TrackBackoffElapsed)
  /\ WF_vars(\E outcome \in DeploymentOutcomes : PromiseSettles(outcome))

(***************************************************************************)
(* verifyUserOperation (web3.ts), called on its own.                       *)
(***************************************************************************)
\* What the caller passes as txResponse: nothing, the JSON-RPC envelope the
\* send route answers with (it has no hash property), or an object with a hash.
RelayEnvelope == [t |-> "object", hash |-> Undefined]

TxWithHash(h) == [t |-> "object", hash |-> Str(<<"0x", h>>)]

TxResponses == {Null, RelayEnvelope, TxWithHash("hash-1"), TxWithHash("hash-2")}

\* Chain ids that are not in SUPPORTED_NETWORKS.
UnknownChainIds == {999}

\* What getTransactionReceipt does: it throws when there is no receipt (or
\* the read fails), or answers a receipt with a status.
ReceiptReads ==
  {[threw |-> TRUE, status |-> "", message |-> <<"Transaction receipt could not be found">>],
   [threw |-> TRUE, status |-> "", message |-> <<"HTTP request failed">>],
   [threw |-> FALSE, status |-> "none", message |-> <<>>],
   [threw |-> FALSE, status |-> "success", message |-> <<>>],
   [threw |-> FALSE, status |-> "1", message |-> <<>>],
   [threw |-> FALSE, status |-> "reverted", message |-> <<>>]}

VerifyFailure(error) == [success |-> FALSE, error |-> error]

VerifySuccess == [success |-> TRUE, error |-> <<>>]

\* A receipt handling that takes any receipt for a confirmation, whatever
\* its status.
receiptResultStatusBlind(read) ==
  IF read.threw THEN VerifyFailure(read.message)
  ELSE IF read.status = "none" THEN VerifyFailure(<<"Transaction receipt not found">>)
  ELSE VerifySuccess

\* A receipt handling that takes a missing receipt for a confirmation.
receiptResultOptimistic(read) ==
  IF read.threw THEN VerifyFailure(read.message)
  ELSE IF read.status \in {"success", "1", "none"} THEN VerifySuccess
  ELSE VerifyFailure(<<"Transaction failed on-chain">>)

\* The statements after the receipt read, and the catch block.
receiptResult(read) ==
  IF read.threw THEN VerifyFailure(read.message)
  ELSE IF read.status = "none" THEN VerifyFailure(<<"Transaction receipt not found">>)
  ELSE IF read.status \in {"success", "1"} THEN VerifySuccess
  ELSE VerifyFailure(<<"Transaction failed on-chain">>)

\* verifyUserOperation(txResponse, chainId) up to the 5-second wait.
VerifyStart(txResponse, chainId) ==
  /\ verify.pc \in {"idle", "returned"}
  /\ verify' = IF txResponse.t = "null" THEN
                 [IdleVerify EXCEPT !.pc = "returned", !.txResponse = txResponse, !.chainId = chainId,
                                    !.result = VerifyFailure(<<"Invalid transaction response">>)]
               ELSE IF txResponse.hash.t # "string" THEN
                 [IdleVerify EXCEPT !.pc = "returned", !.txResponse = txResponse, !.chainId = chainId,
                                    !.result = VerifyFailure(<<"Invalid transaction response">>)]
               ELSE [IdleVerify EXCEPT !.pc = "wait", !.txResponse = txResponse, !.chainId = chainId]
  /\ UNCHANGED <<wallet, pipelineVars, connects, store, track, unit>>

\* The wait is over: the network is looked up and the receipt read is issued.
VerifyWaitElapsed ==
  /\ verify.pc = "wait"
  /\ verify' = IF verify.chainId \notin ChainIds
                 THEN [verify EXCEPT !.pc = "returned",
                         !.result = VerifyFailure(<<"Unsupported chain ID: ">> \o NatDigits(verify.chainId))]
               ELSE [verify EXCEPT !.pc = "read", !.reads = verify.reads + 1]
  /\ UNCHANGED <<wallet, pipelineVars, connects, store, track, unit>>

\* The receipt read completes.
VerifyReceipt(read) ==
  /\ verify.pc = "read"
  /\ verify' = [verify EXCEPT !.pc = "returned", !.receipt = read, !.result = receiptResult(read)]
  /\ UNCHANGED <<wallet, pipelineVars, connects, store, track, unit>>

NextVerify ==
  \/ \E txResponse \in TxResponses, chainId \in ChainIds \cup UnknownChainIds :
       VerifyStart(txResponse, chainId)
  \/ VerifyWaitElapsed
  \/ \E read \in ReceiptReads : VerifyReceipt(read)

SpecVerify == InitUnits /\ [][NextVerify]_vars

(***************************************************************************)
(* AlchemyBundlerProvider.sendUserOperation (providers/alchemy.ts), called *)
(* on its own.                                                             *)
(***************************************************************************)
PaymasterUrl == Str(<<"https://paymaster">>)

\* Providers constructed without and with a paymasterUrl in the config.
Providers ==
  {AlchemyBundlerProvider([apiKey |-> ApiKey, paymasterUrl |-> Undefined]),
   AlchemyBundlerProvider([apiKey |-> ApiKey, paymasterUrl |-> PaymasterUrl])}

\* Operations handed to the provider: a well-formed one, one whose sender
\* is not an address, one whose nonce has no 0x prefix and one whose
\* callData has a character that is no hex digit.
ProviderOps ==
  {SponsoredOp,
   [SponsoredOp EXCEPT !.sender = Str(<<"0x", "1", "2">>)],
   [SponsoredOp EXCEPT !.nonce = Str(<<"7">>)],
   [SponsoredOp EXCEPT !.callData = Str(<<"0x", "g">>)]}

\* provider.sendUserOperation(userOp, entryPoint, chainId) with the replies
\* the paymaster endpoint and the relay give; the call and its outcome are
\* recorded.
ProviderCall(provider, userOp, chainId, pmReply, relayReply) ==
  /\ unit = NoCall
  /\ unit' = [fn |-> "sendUserOperation", provider |-> provider, userOp |-> userOp,
              chainId |-> chainId, pmReply |-> pmReply, relayReply |-> relayReply,
              out |-> sendUserOperation(provider, userOp, ENTRY_POINT_ADDRESSES[chainId], chainId,
                                        pmReply, relayReply)]
  /\ UNCHANGED <<wallet, pipelineVars, connects, store, track, verify>>

NextProvider ==
  \E provider \in Providers, userOp \in ProviderOps, chainId \in ChainIds,
     pmReply \in PaymasterReplies, relayReply \in RelayReplies :
    ProviderCall(provider, userOp, chainId, pmReply, relayReply)

SpecProvider == InitUnits /\ [][NextProvider]_vars

(***************************************************************************)
(* useWalletStore.connect and disconnect (web3.ts) with the await of       *)
(* connect made visible.                                                   *)
(***************************************************************************)
\* The number of connect calls in one behaviour.
MaxConnects == 3

\* connect(privateKey) up to await computeSmartWalletAddress(...).
ConnectStart(privateKey) ==
  /\ Len(connects) < MaxConnects
  /\ connects' = Append(connects, [privateKey |-> privateKey, pc |-> "pending", disconnected |-> FALSE])
  /\ UNCHANGED <<wallet, pipelineVars, store, track, verify, unit>>

\* The address arrives: set({ address, smartWalletAddress, privateKey }).
ConnectResolved(i) ==
  /\ i \in DOMAIN connects
  /\ connects[i].pc = "pending"
  /\ wallet' = [address |-> OwnerAddress,
                smartWalletAddress |-> computeSmartWalletAddress(OwnerAddress, 1),
                privateKey |-> connects[i].privateKey]
  /\ connects' = [connects EXCEPT ![i].pc = "resolved"]
  /\ UNCHANGED <<pipelineVars, store, track, verify, unit>>

\* computeSmartWalletAddress throws: connect logs and rethrows.
ConnectRejected(i) ==
  /\ i \in DOMAIN connects
  /\ connects[i].pc = "pending"
  /\ connects' = [connects EXCEPT ![i].pc = "rejected"]
  /\ UNCHANGED <<wallet, pipelineVars, store, track, verify, unit>>

NextWallet ==
  \/ ConnectStart(OwnerKey)
  \/ \E i \in 1..MaxConnects : ConnectResolved(i)
  \/ \E i \in 1..MaxConnects : ConnectRejected(i)
  \/ disconnect

SpecWallet == InitUnits /\ [][NextWallet]_vars

(***************************************************************************)
(* formatHex of serializeUserOp (web3.ts), applied on its own.             *)
(***************************************************************************)
\* The longest text or numeral handed to formatHex.
MaxLen == 3

\* Characters of the texts: the prefix, decimal digits, hex letters of both
\* cases, and characters that are neither.
FormatChars == {"0x", "0", "1", "9", "a", "F", "g", "-"}

RECURSIVE TextsUpTo(_, _)
TextsUpTo(chars, n) ==
  IF n = 0 THEN {<<>>}
  ELSE LET shorter == TextsUpTo(chars, n - 1)
       IN shorter \cup {Append(t, c) : t \in shorter, c \in chars}

\* The values handed to formatHex: null, undefined, non-negative bigints
\* and numbers, and strings.
FormatInputs ==
  {Null, Undefined}
    \cup {BigInt(ds) : ds \in TextsUpTo({"0", "1", "9"}, MaxLen) \ {<<>>}}
    \cup {[t |-> "number", v |-> BigInt(ds).v] : ds \in TextsUpTo({"0", "1", "9"}, MaxLen) \ {<<>>}}
    \cup {Str(t) : t \in TextsUpTo(FormatChars, MaxLen)}

\* formatHex(value); the argument and the result are recorded.
FormatCall(value) ==
  /\ unit = NoCall
  /\ unit' = [fn |-> "formatHex", value |-> value, out |-> formatHex(value), again |-> <<>>]
  /\ UNCHANGED <<wallet, pipelineVars, connects, store, track, verify>>

\* formatHex applied to the result of the recorded call.
FormatAgain ==
  /\ unit.fn = "formatHex"
  /\ unit' = [unit EXCEPT !.fn = "formatHexTwice", !.again = formatHex(Str(unit.out))]
  /\ UNCHANGED <<wallet, pipelineVars, connects, store, track, verify>>

NextFormat ==
  \/ \E value \in FormatInputs : FormatCall(value)
  \/ FormatAgain

SpecFormat == InitUnits /\ [][NextFormat]_vars

(***************************************************************************)
(* server/routes.ts: POST /api/config/bundler and                          *)
(* POST /api/send-user-operation, requested on their own.                  *)
(***************************************************************************)
\* Chain ids of requests: the supported ones, a missing one (0) and one
\* that is in no table.
RequestChainIds == ChainIds \cup {0} \cup UnknownChainIds

\* A config route that initializes the provider before it looks at apiKey.
ConfigRequestInitializesFirst(type, apiKey, paymasterUrl) ==
  LET config == [set |-> TRUE, type |-> type, apiKey |-> apiKey, paymasterUrl |-> paymasterUrl]
  IN /\ initializeBundlerProvider(config)
     /\ unit' = [fn |-> "config",
                 status |-> IF apiKey.t # "string" THEN 400
                            ELSE IF apiKey.v = <<>> THEN 400
                            ELSE IF createBundlerProvider(config).set THEN 200 ELSE 500]
     /\ UNCHANGED <<wallet, code, run, inflight, responses, relayLog, paymasterLog>>
     /\ UNCHANGED <<connects, store, track, verify>>

\* POST /api/config/bundler with body { type, apiKey, paymasterUrl }: 400
\* without an apiKey, 500 when initializeBundlerProvider throws, else 200.
ConfigRequest(type, apiKey, paymasterUrl) ==
  LET config == [set |-> TRUE, type |-> type, apiKey |-> apiKey, paymasterUrl |-> paymasterUrl]
      missing == IF apiKey.t # "string" THEN TRUE ELSE apiKey.v = <<>>
  IN /\ IF missing THEN UNCHANGED <<bundlerProvider, bundlerConfig>>
        ELSE initializeBundlerProvider(config)
     /\ unit' = [fn |-> "config",
                 status |-> IF missing THEN 400
                            ELSE IF createBundlerProvider(config).set THEN 200 ELSE 500]
     /\ UNCHANGED <<wallet, code, run, inflight, responses, relayLog, paymasterLog>>
     /\ UNCHANGED <<connects, store, track, verify>>

\* POST /api/send-user-operation with the server's provider and
\* configuration; the request, whether a provider was configured, and the
\* response with the outgoing requests are recorded.
RouteCall(userOp, chainId, usePaymaster, pmReply, relayReply) ==
  /\ unit.fn # "route"
  /\ LET req == PostBody(1, userOp, chainId, usePaymaster)
     IN unit' = [fn |-> "route", req |-> req, configured |-> bundlerProvider.set,
                 out |-> sendUserOperationRoute(req, bundlerProvider, bundlerConfig, pmReply, relayReply)]
  /\ UNCHANGED <<wallet, pipelineVars, connects, store, track, verify>>

NextRoute ==
  \/ \E type \in {Undefined, Str(<<"alchemy">>), Str(<<"stackup">>)},
        apiKey \in {Undefined, Str(<<>>), ApiKey},
        paymasterUrl \in {Undefined, PaymasterUrl} :
       ConfigRequest(type, apiKey, paymasterUrl)
  \/ \E userOp \in ProviderOps, chainId \in RequestChainIds, usePaymaster \in BOOLEAN,
        pmReply \in PaymasterReplies, relayReply \in RelayReplies :
       RouteCall(userOp, chainId, usePaymaster, pmReply, relayReply)

SpecRoute == InitUnits /\ [][NextRoute]_vars

(***************************************************************************)
(* Properties.                                                             *)
(***************************************************************************)
\* The requests a run of the pipeline (not another HTTP client) has made.
PipelineRequests ==
  {q \in inflight \cup relayLog : run[q.src].kind \in {"send", "deploy"}}

\* The signature signUserOp produces for the operation a request carries,
\* as serialized on the wire.
ProducedSignature(q) ==
  serializeUserOp(
    signedUserOp(assembleUserOp(q.userOp.sender, BigInt(<<"0">>), q.userOp.initCode),
                 q.chainId, ENTRY_POINT_ADDRESSES[q.chainId], OwnerKey)).signature

\* C1: every operation a transfer or deployment run has posted to
\* /api/send-user-operation, and every one passed on to the relay, carries a
\* signature that is neither absent nor '0x' and is the one signUserOp
\* produced for that operation with the owner's key.  (deploySmartWallet has
\* no signing step; it stops at JSON.stringify(deploymentTx) before posting.)
C1_SignedBeforeSubmission ==
  \A q \in PipelineRequests :
    /\ q.userOp.signature.t = "string"
    /\ q.userOp.signature.v \notin {<<>>, <<"0x">>}
    /\ q.userOp.signature.by = OwnerKey.v[2]
    /\ q.userOp.signature = ProducedSignature(q)

\* C1 witness: a transfer run's operation has reached the relay and a
\* deployment run has gone through its assembly.
C1_Witness ==
  /\ \E e \in relayLog : run[e.src].kind = "send" /\ e.userOp.signature.v = <<"0x", "sig65">>
  /\ \E r \in Runs : run[r].kind = "deploy" /\ run[r].pc = "thrown" /\ run[r].userOp # NoOp

\* The bytes that were hashed for a field when a signature was produced.
HashedBytes(signature, f) ==
  LET pre == signature.over.digest.pre
      at == {i \in 1..Len(pre) : pre[i].f = f}
  IN IF at = {} THEN <<"absent">> ELSE pre[CHOOSE i \in at : TRUE].b

\* C2: for every operation sent to the relay, each of the ten fields of the
\* eth_sendUserOperation params has the value that was hashed when its
\* signature was produced.
C2_NoSignedFieldMutated ==
  \A e \in relayLog : \A i \in 1..Len(OpFields) :
    toBytes(e.userOp[OpFields[i]].v) = HashedBytes(e.userOp.signature, OpFields[i])

\* The operations useSendTransaction has signed.
SignedRuns == {r \in Runs : run[r].kind = "send" /\ run[r].pc = "send"}

\* The integer a hex digit string denotes, as its digits without leading zeros.
HexValue(digits) == StripLeadingZeros(IF digits = <<>> THEN <<"0">> ELSE toLowerCase(digits))

\* C3: for each numeric field of an operation assembled by useSendTransaction,
\* the integer packed into the signed message equals the integer
\* serializeUserOp emits for the field.
C3_SameNumericCanonicalization ==
  \A r \in SignedRuns : \A f \in NumericFields :
    HexValue(HashedBytes(run[r].userOp.signature, f)) =
      HexValue(Tail(serializeUserOp(run[r].userOp)[f].v))

\* C4: the input handed to the key's signing primitive is the raw digest
\* bytes: not the digest's text and not a personal-message-prefixed hash.
C4_SignsRawDigest ==
  \A r \in SignedRuns :
    /\ ~run[r].userOp.signature.over.eip191
    /\ run[r].userOp.signature.over.enc = "bytes"

\* The fields of the hashed byte string of a signature, in order.
HashedOrder(signature) ==
  [i \in 1..Len(signature.over.digest.pre) |-> signature.over.digest.pre[i].f]

\* C5: the hashed byte string is the entry point bytes, the chain id bytes
\* and the ten fields in their fixed order; the signature is not part of it
\* and no field is left out, repeated or moved.
C5_HashedFieldOrder ==
  \A r \in SignedRuns :
    LET signature == run[r].userOp.signature
    IN /\ HashedOrder(signature) = <<"entryPoint", "chainId">> \o OpFields
       /\ HashedBytes(signature, "entryPoint") = hexToBytes(ENTRY_POINT_ADDRESSES[run[r].chainId].v)
       /\ HashedBytes(signature, "chainId") = hexToBytes(<<"0x">> \o toString16(NatDigits(run[r].chainId)))
       /\ \A i \in 1..Len(OpFields) :
            HashedBytes(signature, OpFields[i]) = toBytes(signFormatHex(run[r].userOp[OpFields[i]]))

\* C5 witness: an operation on Polygon has been signed with non-empty initCode.
C5_Witness ==
  \E r \in SignedRuns : run[r].chainId = 137 /\ run[r].userOp.initCode # Empty0x

\* A step of run r in which one of the checks or reads of useSendTransaction
\* fails: the wallet-connected check, the network lookup, the
\* deployment-status read, the nonce fetch or the entry-point fetch.
FailingStep(r) ==
  \/ StartNotConnected(r)
  \/ \E n \in NetworkChoices : StartUnsupported(r, n)
  \/ CheckDeployment(r, TRUE)
  \/ FetchNonceFails(r)
  \/ FetchEntryPointFails(r)

\* C6: a step of a useSendTransaction run in which a check or read fails
\* ends the run by throwing an error with a message, and no request to
\* /api/send-user-operation is made in or after it.
C6_NoPartialSubmission ==
  [][\A r \in Runs :
       FailingStep(r) =>
         /\ run'[r].pc = "thrown"
         /\ run'[r].err.message # <<>>
         /\ inflight' = inflight]_vars

\* The relay's answers to the submissions of useSendTransaction runs that
\* are not acceptances.
RelayRejections ==
  {e \in relayLog : run[e.src].kind = "send" /\ (e.reply.status # 200 \/ e.reply.isError)}

\* C7: when the relay answers a submission with a non-2xx status or a
\* JSON-RPC error, the run does not return a result, the response it gets is
\* not a success, and the error thrown to the caller contains the relay's
\* message text.
C7_RelayMessageKept ==
  \A e \in RelayRejections :
    /\ run[e.src].pc \in {"send", "thrown"}
    /\ responses[e.src].status = 500
    /\ Contains(responses[e.src].text, e.reply.message)
    /\ run[e.src].pc = "thrown" =>
         /\ run[e.src].err.error = "Failed to send UserOperation"
         /\ Contains(run[e.src].err.message, e.reply.message)

\* C7 witness: a run has thrown after the relay rejected its submission with
\* a diagnostic message, once by HTTP status and once in a JSON-RPC error.
C7_Witness ==
  /\ \E e \in RelayRejections : e.reply = RelayHttpError /\ run[e.src].pc = "thrown"
  /\ \E e \in RelayRejections : e.reply = RelayRpcError /\ run[e.src].pc = "thrown"

\* The runs that hold an assembled operation.
AssembledRuns == {r \in Runs : run[r].kind \in {"send", "deploy"} /\ run[r].userOp.initCode.t = "string"}

\* The first 20 bytes of an initCode, as lower-case hex text.
InitCodeFactory(initCode) ==
  toLowerCase(SubSeq(initCode.v, 1, IF Len(initCode.v) < 41 THEN Len(initCode.v) ELSE 41))

\* C8: an operation assembled with isDeployed true has initCode '0x'; one
\* assembled with isDeployed false has a non-empty initCode whose first 20
\* bytes are, case-insensitively, the factory address of its chain.
C8_InitCodeEmptiness ==
  \A r \in AssembledRuns :
    IF run[r].isDeployed THEN run[r].userOp.initCode = Empty0x
    ELSE /\ run[r].userOp.initCode # Empty0x
         /\ NumChars(run[r].userOp.initCode.v) > 42
         /\ InitCodeFactory(run[r].userOp.initCode) = toLowerCase(SIMPLE_ACCOUNT_FACTORY[run[r].chainId].v)

\* C8 witness: one operation assembled for a deployed wallet and one for an
\* undeployed wallet.
C8_Witness ==
  /\ \E r \in AssembledRuns : run[r].isDeployed /\ run[r].userOp.callData.t = "string"
  /\ \E r \in AssembledRuns : ~run[r].isDeployed /\ run[r].userOp.callData.t = "string"

\* The submitted operations of the owner's wallet on chain c that carry initCode.
DeployingOps(c) ==
  {q \in PipelineRequests :
     q.chainId = c /\ q.userOp.sender = WalletAddress /\ q.userOp.initCode # Empty0x}

\* C9: an operation assembled for the owner's wallet after the wallet exists
\* on the chain has initCode '0x', whatever the deployment-status read does,
\* and at most one submitted operation per chain carries a non-empty initCode.
C9_InitCodeOnce ==
  /\ [][\A r \in Runs, readThrows \in BOOLEAN :
          (CheckDeployment(r, readThrows) /\ run[r].sender = WalletAddress /\ run[r].chainId \in code)
            => run'[r].userOp.initCode = Empty0x]_vars
  /\ [](\A c \in ChainIds : Cardinality(DeployingOps(c)) <= 1)

\* C10: the factory address in the first 20 bytes of an assembled initCode is
\* the factory address the compute-address route uses for the same chain id.
C10_OneFactoryPerChain ==
  \A r \in AssembledRuns :
    run[r].userOp.initCode # Empty0x =>
      InitCodeFactory(run[r].userOp.initCode) =
        toLowerCase(SERVER_SIMPLE_ACCOUNT_FACTORY[run[r].chainId].v)

\* a > b for two hex numerals given as digits without leading zeros.
RECURSIVE HexGreater(_, _)
HexGreater(a, b) ==
  IF Len(a) # Len(b) THEN Len(a) > Len(b)
  ELSE IF a = <<>> THEN FALSE
  ELSE IF Head(a) # Head(b) THEN DigitVal(Head(a)) > DigitVal(Head(b))
  ELSE HexGreater(Tail(a), Tail(b))

\* The nonce of an operation sent to the relay, as a hex numeral.
NonceOf(e) == HexValue(Tail(e.userOp.nonce.v))

\* C11: when a useSendTransaction run submits an operation to the relay after
\* one of the same sender on the same chain that the relay accepted, its
\* nonce is strictly greater than the accepted one's.
C11_NonceIncreases ==
  [][\A e \in relayLog, n \in relayLog' \ relayLog :
       (/\ run[e.src].kind = "send" /\ run[n.src].kind = "send"
        /\ e.reply = RelayAccepted /\ n.userOp.sender = e.userOp.sender /\ n.chainId = e.chainId)
         => HexGreater(NonceOf(n), NonceOf(e))]_vars

\* C12: every attempt of trackDeployment makes a relay submission of its
\* own: the number of submissions equals the number of attempts made, and
\* neither exceeds 3.
C12_SubmissionPerAttempt ==
  track.pc # "idle" => (track.fetches = track.started /\ track.started <= 3)

\* How a trackDeployment call leaves the store and the caller when it ends.
TrackEnded ==
  CASE track.pc = "returned" ->
         /\ track.deploymentPromise.state = "fulfilled"
         /\ track.result = track.deploymentPromise.value
         /\ store.status = "deployed"
    [] track.pc = "thrown" ->
         /\ track.deploymentPromise.state = "rejected"
         /\ track.attempts = track.maxRetries
         /\ track.err = track.deploymentPromise.value
         /\ store.status = "failed"
         /\ store.error = Str(track.deploymentPromise.value.message)
    [] OTHER -> TRUE

\* C13: trackDeployment makes at most maxRetries attempts; once the promise
\* it awaits settles it ends, either returning the result with the store
\* 'deployed' or throwing the last error with the store 'failed' and the
\* store error set to that error's message; it never ends with 'deploying'.
C13_TrackTerminates ==
  /\ [](track.started <= track.maxRetries)
  /\ [][(track' # track /\ track'.pc \in {"returned", "thrown"})
         => (TrackEnded' /\ store'.status # "deploying")]_vars
  /\ (track.pc = "await") ~> (track.pc \in {"returned", "thrown"})

\* C13 witness: a call with maxRetries 3 has thrown after its third attempt.
C13_Witness ==
  /\ track.pc = "thrown" /\ track.started = 3 /\ track.maxRetries = 3
  /\ store.status = "failed" /\ store.error = Str(FetchFailed.message)

\* C15: once the store is 'deployed' or 'failed', the trackDeployment call
\* that set it makes no further transition and the store is changed only by
\* reset() or by a new call, which starts at its first attempt.
C15_TerminalStates ==
  [][store.status \in {"deployed", "failed"} =>
       /\ track' # track => (track.pc \in {"returned", "thrown"} /\ track'.pc = "await" /\ track'.started = 1)
       /\ store' # store => (track.pc \in {"returned", "thrown"} /\ (store' = IdleStore \/ track'.started = 1))]_vars

\* C15 witness: a call has ended 'deployed' with the handle it returned stored.
C15_Witness ==
  /\ track.pc = "returned" /\ store.status = "deployed"
  /\ store.transactionHash = ResultWithHash.hash
  /\ store.error = Null

\* The number of reads the confirmation phase may make.
PollingBudget == 10

FailingRead(r) ==
  \/ CheckDeployment(r, TRUE)
  \/ DeployCheck(r, TRUE)
  \/ DeployAssemble(r, TRUE)
  \/ DeployAddressFails(r)
  \/ FetchNonceFails(r)
  \/ FetchEntryPointFails(r)

\* C16: a step in which a read fails ends the run with an error thrown to
\* the caller, and the run holds no deployment status and no operation
\* built from a value substituted for the failed read.
C16_NoSwallowedFailure ==
  [][\A r \in Runs :
       FailingRead(r) =>
         /\ run'[r].pc = "thrown"
         /\ run'[r].isDeployed = IdleRun.isDeployed
         /\ run'[r].userOp = IdleRun.userOp]_vars

\* C17: when a request to /api/send-user-operation is handled, no paymaster
\* request is made and the operation sent to the relay has paymasterAndData
\* '0x' unless the request sets usePaymaster and a paymaster endpoint is
\* configured; when both hold and the operation is sent to the relay, the
\* paymaster endpoint has been asked for its sponsorship data.
C17_SponsorshipOptIn ==
  [][\A req \in inflight \ inflight' :
       LET optIn == req.usePaymaster /\ bundlerConfig.paymasterUrl.t = "string"
           sent == relayLog' \ relayLog
       IN /\ ~optIn => /\ paymasterLog' = paymasterLog
                       /\ \A e \in sent : e.userOp.paymasterAndData = Empty0x
          /\ (optIn /\ sent # {}) => \E p \in paymasterLog' \ paymasterLog : p.src = req.src]_vars

\* Calls of sendUserOperation that get as far as the paymaster request and
\* whose request fails: the endpoint answers a non-2xx status, answers
\* without paymasterAndData, or the request throws.
PaymasterFailed ==
  /\ unit.fn = "sendUserOperation"
  /\ unit.provider.paymasterUrl.t = "string"
  /\ getChainPrefix(unit.chainId) # <<>>
  /\ validateUserOperation(unit.userOp) = <<>>
  /\ IF unit.pmReply.threw THEN TRUE
     ELSE IF ~unit.pmReply.ok THEN TRUE
     ELSE unit.pmReply.paymasterAndData.t # "string"

\* C18: when the paymaster request fails, sendUserOperation throws an error
\* whose message begins with 'Paymaster error: ', makes no request to the
\* relay, and has contacted the paymaster endpoint exactly once.
C18_PaymasterFailureStops ==
  PaymasterFailed =>
    /\ unit.out.threw
    /\ Len(unit.out.message) > 1 /\ Head(unit.out.message) = "Paymaster error: "
    /\ unit.out.relayCalls = <<>>
    /\ Len(unit.out.paymasterCalls) = 1

\* C18 witness: a call whose paymaster request threw has failed with the
\* request's message behind the prefix.
C18_Witness ==
  /\ PaymasterFailed /\ unit.pmReply.threw
  /\ unit.out.message = <<"Paymaster error: ", "fetch failed">>

\* C19: a connect call that was awaiting its address when disconnect ran
\* does not write the wallet store when it settles, so the identity
\* cleared by disconnect stays cleared.
C19_DisconnectWins ==
  [][\A i \in DOMAIN connects :
       (connects[i].pc = "pending" /\ connects[i].disconnected /\ connects'[i].pc # "pending")
         => wallet' = wallet]_vars

\* The submissions of useSendTransaction runs that reached the relay.
SendSubmissions == {e \in relayLog : run[e.src].kind = "send"}

\* C20: a useSendTransaction run is never held back or rejected because of
\* another run: with the wallet connected a further run can start whatever
\* the earlier runs are doing, a run waiting for the deployment status or
\* the nonce can go on, and every posted request can be handled and relayed.
C20_NoPerSenderGuard ==
  /\ \A r \in Runs :
       /\ (CanStart(r) /\ "null" \notin {wallet.privateKey.t, wallet.address.t})
            => ENABLED Start(r, "Ethereum")
       /\ (run[r].kind = "send" /\ run[r].pc = "verifyDeployment")
            => ENABLED CheckDeployment(r, FALSE)
       /\ (run[r].kind = "send" /\ run[r].pc = "fetchNonce") => ENABLED FetchNonce(r)
  /\ \A req \in inflight, pmReply \in PaymasterReplies :
       ENABLED HandleSendUserOperation(req, pmReply, RelayAccepted)

\* C20 witness: two runs for the same sender on the same chain were both in
\* flight at once and both reached the relay with the same nonce, the
\* second while the first was still waiting for its answer.
C20_Witness ==
  \E a \in SendSubmissions, b \in SendSubmissions :
    /\ a.src # b.src
    /\ a.userOp.sender = b.userOp.sender /\ a.chainId = b.chainId
    /\ a.userOp.nonce = b.userOp.nonce
    /\ run[a.src].pc = "send" /\ run[b.src].pc = "send"

\* The inputs formatHex is specified for: null, undefined, a non-negative
\* bigint or number, an all-digit string, a 0x-prefixed hex string.
ValidFormatInput(value) ==
  IF value.t # "string" THEN TRUE
  ELSE IF IsDecimalString(value.v) THEN TRUE
  ELSE IsHex(value.v)

\* C21: for every valid input, applying formatHex to its own result gives
\* that result again.
C21_FormatHexIdempotent ==
  (unit.fn = "formatHexTwice" /\ ValidFormatInput(unit.value)) => unit.again = unit.out

\* C21 witness: a decimal string has been converted to hex and the result
\* has been passed through formatHex a second time.
C21_Witness ==
  /\ unit.fn = "formatHexTwice"
  /\ unit.value = Str(<<"1", "9">>)
  /\ unit.out = <<"0x", "1", "3">>
  /\ unit.again = <<"0x", "1", "3">>

\* Strings that are no numerals: not 0x-prefixed, with a character that is
\* neither a decimal digit nor a hex digit.
MalformedNumeric(value) ==
  /\ value.t = "string"
  /\ ~startsWith0x(value.v)
  /\ \E i \in 1..Len(value.v) : value.v[i] \notin HexDigits

\* C22: formatHex gives no 0x-prefixed result for a string that is not
\* 0x-prefixed and has a character that is neither a decimal nor a hex digit.
C22_MalformedRejected ==
  (unit.fn \in {"formatHex", "formatHexTwice"} /\ MalformedNumeric(unit.value))
    => ~startsWith0x(unit.out)

\* '0x' followed by at least one lower-case hex digit, without a leading
\* zero digit unless the text is '0x0'.
CanonicalHex(text) ==
  /\ startsWith0x(text)
  /\ Len(text) >= 2
  /\ \A i \in 2..Len(text) : text[i] \in {LowerHexChars[k] : k \in 1..16}
  /\ text[2] = "0" => Len(text) = 2

\* C23: in every request the pipeline has sent, each integer field of the
\* serialized operation is a string in canonical hex.
C23_IntegerFieldsCanonical ==
  \A q \in PipelineRequests : \A f \in NumericFields :
    q.userOp[f].t = "string" /\ CanonicalHex(q.userOp[f].v)

\* C23 witness: a request of useSendTransaction is on the wire with nonce
\* 0x0 and the gas limit 500000 written as 0x7a120.
C23_Witness ==
  \E q \in PipelineRequests \cap inflight :
    /\ q.userOp.nonce.v = <<"0x", "0">>
    /\ q.userOp.callGasLimit.v = <<"0x", "7", "a", "1", "2", "0">>
    /\ q.userOp.maxFeePerGas.v = <<"0x", "1", "2", "a", "0", "5", "f", "2", "0", "0">>

\* Messages made of the searched texts and one other text.
HintTexts == TextsUpTo(HintNeedles \cup {"execution reverted"}, 2)

\* C24: a relay rejection whose message contains 'insufficient funds' and
\* not the initCode-empty text is displayed, once the run has thrown, under
\* the title 'Insufficient Funds' with the raw message containing the
\* relay's text; and the title of any message follows the priority order
\* initCode-empty, insufficient funds, invalid signature, nonce, default.
C24_InsufficientFundsHint ==
  /\ \A e \in RelayRejections :
       (/\ includes(e.reply.message, "insufficient funds")
        /\ ~includes(e.reply.message, InitCodeEmptyText)
        /\ run[e.src].pc = "thrown")
         => /\ TransactionErrorDisplay(run[e.src].err).title = "Insufficient Funds"
            /\ Contains(TransactionErrorDisplay(run[e.src].err).message, e.reply.message)
  /\ \A text \in HintTexts :
       getHumanReadableError(text) =
         (CASE includes(text, InitCodeEmptyText) -> "Smart Wallet Not Deployed"
            [] ~includes(text, InitCodeEmptyText) /\ includes(text, "insufficient funds")
                 -> "Insufficient Funds"
            [] \A n \in {InitCodeEmptyText, "insufficient funds"} : ~includes(text, n)
                 -> IF includes(text, "invalid signature") THEN "Invalid Signature"
                    ELSE IF includes(text, "nonce") THEN "Invalid Transaction Sequence"
                    ELSE "Transaction Failed")

\* C24 witness: the relay answered 'insufficient funds for gas' with status
\* 400, the run has thrown and the dialog is titled 'Insufficient Funds'.
C24_Witness ==
  \E e \in RelayRejections :
    /\ e.reply = RelayHttpError
    /\ run[e.src].pc = "thrown"
    /\ TransactionErrorDisplay(run[e.src].err).title = "Insufficient Funds"
    /\ Head(TransactionErrorDisplay(run[e.src].err).message) = "Failed to send transaction: "

\* C25: with a bundler configured, a well-formed signed operation posted
\* for any of the seven supported chain ids reaches the relay request.
C25_EverySupportedChainSubmits ==
  (/\ unit.fn = "route"
   /\ unit.configured
   /\ unit.req.userOp = SponsoredOp
   /\ unit.req.chainId \in ChainIds)
    => Len(unit.out.relayCalls) = 1

\* The requests the send route must turn down before the provider is
\* called: no provider configured, chainId missing, or a chain id without
\* a factory or an entry-point entry.
LocallyRejected ==
  /\ unit.fn = "route"
  /\ IF ~unit.configured THEN TRUE
     ELSE IF unit.req.chainId = 0 THEN TRUE
     ELSE IF unit.req.chainId \notin DOMAIN SERVER_SIMPLE_ACCOUNT_FACTORY THEN TRUE
     ELSE unit.req.chainId \notin DOMAIN ENTRY_POINT_ADDRESSES

\* C30: the send route answers such a request with an error response and
\* makes no request to the relay or the paymaster endpoint; and a request
\* to the config route without an apiKey is answered 400 and leaves
\* bundlerProvider and bundlerConfig as they were.
C30_RouteAndConfigErrors ==
  /\ [](LocallyRejected =>
          /\ unit.out.status = 500
          /\ unit.out.relayCalls = <<>>
          /\ unit.out.paymasterCalls = <<>>)
  /\ [][\A type \in {Undefined, Str(<<"alchemy">>), Str(<<"stackup">>)},
           apiKey \in {Undefined, Str(<<>>)},
           paymasterUrl \in {Undefined, PaymasterUrl} :
          ConfigRequest(type, apiKey, paymasterUrl) =>
            /\ unit'.status = 400
            /\ bundlerProvider' = bundlerProvider
            /\ bundlerConfig' = bundlerConfig]_vars

\* C30 witness: a provider was configured, a later config request without
\* apiKey was answered 400, and the configuration with its paymaster URL is
\* still in place.
C30_Witness ==
  /\ unit.fn = "config" /\ unit.status = 400
  /\ bundlerProvider.set
  /\ bundlerConfig.paymasterUrl = PaymasterUrl

\* C26: the sender of every operation useSendTransaction works on for a
\* chain is the smart-wallet address the compute-address route resolves
\* for the owner on that chain with salt 0, and is not the owner's address.
C26_SenderResolvedForChain ==
  \A r \in Runs :
    (run[r].kind = "send" /\ run[r].sender.t = "string")
      => /\ run[r].sender = computeSmartWalletAddress(run[r].address, run[r].chainId)
         /\ run[r].sender # run[r].address

\* C27: whenever the deployment store says 'deployed', the submission was
\* answered with a 2xx response and transactionHash holds a handle.
C27_DeployedMeansAccepted ==
  store.status = "deployed" =>
    /\ track.deploymentPromise.state = "fulfilled"
    /\ track.deploymentPromise.value.ok
    /\ store.transactionHash.t = "string"

\* The call has positive evidence: a receipt was read and its status says
\* success.
SuccessfulReceipt ==
  /\ verify.reads = 1
  /\ ~verify.receipt.threw
  /\ verify.receipt.status \in {"success", "1"}

\* C28: verifyUserOperation ends only by returning a value; the value says
\* success exactly when a receipt with a success status was read, and is
\* otherwise a failure with an error text: for a missing response or hash
\* and for an unsupported chain id without any read, for a missing receipt,
\* another status or a failed read after the read.
C28_SuccessOnlyOnEvidence ==
  /\ verify.pc \in {"idle", "wait", "read", "returned"}
  /\ verify.pc = "returned" =>
       /\ verify.result.success = SuccessfulReceipt
       /\ ~verify.result.success => verify.result.error # <<>>
       /\ (IF verify.txResponse.t = "null" THEN TRUE ELSE verify.txResponse.hash.t # "string")
            => (verify.reads = 0 /\ verify.result = VerifyFailure(<<"Invalid transaction response">>))
       /\ (verify.chainId \notin ChainIds) => (verify.reads = 0 /\ ~verify.result.success)
       /\ (verify.reads = 1 /\ verify.receipt.threw)
            => verify.result = VerifyFailure(verify.receipt.message)

\* C28 witness: a call for a handle on Polygon has read a receipt with
\* status 'success' and returned success.
C28_Witness ==
  /\ verify.pc = "returned" /\ verify.chainId = 137
  /\ verify.txResponse = TxWithHash("hash-2")
  /\ verify.receipt.status = "success"
  /\ verify.result = VerifySuccess

\* An operation is malformed when its sender is not 0x and 40 hex digits,
\* or another field is non-empty and not 0x followed by hex digits only.
MalformedOp(userOp) ==
  IF userOp.sender.t # "string" THEN TRUE
  ELSE IF ~(IsHex(userOp.sender.v) /\ NumChars(userOp.sender.v) = 42) THEN TRUE
  ELSE \E i \in 1..Len(ValidatedFields) :
         LET value == userOp[ValidatedFields[i]]
         IN value.t = "string" /\ value.v # <<>> /\ ~IsHex(value.v)

====
